---- MODULE Spec2Model ----
(***************************************************************************)
(* Refrapt: a mirror of Debian repositories.  The model follows            *)
(* refrapt/refrapt.py (main, Clean, ProcessIndex, GetSources),             *)
(* refrapt/classes.py (Repository, PackageCollection, SourceCollection,    *)
(* Downloader), refrapt/helpers.py (SanitiseUri) and refrapt/settings.py.  *)
(*                                                                         *)
(* A string is a sequence of tokens: a token is a run of word characters   *)
(* ("http", "Packages", "80") or one other character (":", "/", ".", "-"). *)
(* The file systems (skel = staging, mirror = live mirror, var) are        *)
(* functions from paths to file records; upstream is the same for URLs.    *)
(***************************************************************************)
EXTENDS Integers, Sequences, FiniteSets, TLC

----------------------------------------------------------------------------
(* Bounds of the model *)

MaxRuns == 2
MaxKills == 1
MaxChanges == 1
MaxThreads == 2

\* the lines of a configuration Settings.Parse is called with
MaxLines == 2

\* the tokens of a URI SanitiseUri is called with
MaxUriLen == 6

\* the names a Release file lists when _ParseReleaseFiles is called alone
MaxListed == 2

MaxIndexLines == 3

----------------------------------------------------------------------------
(* Strings *)

DigitTokens == {"0", "1", "2", "3", "4", "80"}

WordTokens == DigitTokens \cup
    {"http", "a", "b", "x", "dists", "d", "main", "binary", "amd64",
     "source", "Packages", "Sources", "InRelease", "Release", "gpg",
     "xz", "gz", "bz2", "pool", "p1", "p2", "s1", "deb", "dsc", "old"}

Concat(s, t) == s \o t

IsPrefix(p, s) == Len(p) <= Len(s) /\ SubSeq(s, 1, Len(p)) = p

Drop(s, n) == SubSeq(s, n + 1, Len(s))

\* str.__contains__ : p occurs in s as a contiguous run
Contains(s, p) == \E i \in 0..(Len(s) - Len(p)) : SubSeq(s, i + 1, i + Len(p)) = p

\* length of the \w+ run at the start of s
RECURSIVE WordRun(_)
WordRun(s) == IF s # <<>> /\ Head(s) \in WordTokens THEN 1 + WordRun(Tail(s)) ELSE 0

\* re.sub(r"^(\w+)://", "", uri)
StripScheme(uri) ==
    LET k == WordRun(uri)
    IN  IF k >= 1 /\ IsPrefix(<<":", "/", "/">>, Drop(uri, k)) THEN Drop(uri, k + 3) ELSE uri

RECURSIVE DigitRun(_)
DigitRun(s) == IF s # <<>> /\ Head(s) \in DigitTokens THEN 1 + DigitRun(Tail(s)) ELSE 0

\* re.sub(r":\d+", "", uri) : leftmost, greedy, non-overlapping
RECURSIVE StripPorts(_)
StripPorts(s) ==
    IF s = <<>> THEN <<>>
    ELSE IF Head(s) = ":" /\ DigitRun(Tail(s)) >= 1
         THEN StripPorts(Drop(s, 1 + DigitRun(Tail(s))))
         ELSE <<Head(s)>> \o StripPorts(Tail(s))

SanitiseUri(uri) == StripPorts(StripScheme(uri))

\* str.strip() : the text without the whitespace around it
RECURSIVE Trim(_)
Trim(e) ==
    IF e # <<>> /\ Head(e) = " " THEN Trim(Tail(e))
    ELSE IF e # <<>> /\ e[Len(e)] = " " THEN Trim(SubSeq(e, 1, Len(e) - 1))
    ELSE e

\* str.strip('"')
RECURSIVE StripQuotes(_)
StripQuotes(e) ==
    IF e # <<>> /\ Head(e) = "\"" THEN StripQuotes(Tail(e))
    ELSE IF e # <<>> /\ e[Len(e)] = "\"" THEN StripQuotes(SubSeq(e, 1, Len(e) - 1))
    ELSE e

\* s.split(sep)[0] for a separator of one or more tokens
RECURSIVE Before(_, _)
Before(s, sep) ==
    IF s = <<>> \/ IsPrefix(sep, s) THEN <<>>
    ELSE <<Head(s)>> \o Before(Tail(s), sep)

\* os.path.normpath on a relative POSIX path: "//" collapses, "." segments
\* and a trailing "/" go (".." does not occur in the paths of the model)
RECURSIVE NormSegs(_, _)
NormSegs(s, atStart) ==
    IF s = <<>> THEN <<>>
    ELSE IF Head(s) = "/"
         THEN IF Tail(s) = <<>> \/ Head(Tail(s)) = "/"
              THEN NormSegs(Tail(s), FALSE)
              ELSE IF Head(Tail(s)) = "." /\ (Len(s) = 2 \/ s[3] = "/")
                   THEN NormSegs(Tail(Tail(s)), FALSE)
                   ELSE <<"/">> \o NormSegs(Tail(s), FALSE)
         ELSE IF atStart /\ Head(s) = "." /\ Len(s) >= 2 /\ s[2] = "/"
              THEN NormSegs(Drop(s, 2), TRUE)
              ELSE <<Head(s)>> \o NormSegs(Tail(s), FALSE)

normpath(p) == NormSegs(p, TRUE)

\* os.path.splitext(file)[0] : the extension starts at the last "." of the
\* last segment, unless that "." leads the segment
RECURSIVE LastIndexOf(_, _)
LastIndexOf(s, c) ==
    IF s = <<>> THEN 0
    ELSE IF s[Len(s)] = c THEN Len(s) ELSE LastIndexOf(SubSeq(s, 1, Len(s) - 1), c)

splitext(file) ==
    LET slash == LastIndexOf(file, "/")
        dot   == LastIndexOf(file, ".")
    IN  IF dot > slash + 1 THEN SubSeq(file, 1, dot - 1) ELSE file

----------------------------------------------------------------------------
(* classes.py : Repository.__init__ *)

\* str.split(sep) for a one-token separator, empty pieces included
RECURSIVE Split(_, _)
Split(s, sep) ==
    IF \A i \in 1..Len(s) : s[i] # sep THEN <<s>>
    ELSE LET i == CHOOSE j \in 1..Len(s) : s[j] = sep /\ \A k \in 1..(j - 1) : s[k] # sep
         IN  <<SubSeq(s, 1, i - 1)>> \o Split(Drop(s, i), sep)

\* list(filter(None, xs))
RECURSIVE FilterNone(_)
FilterNone(xs) ==
    IF xs = <<>> THEN <<>>
    ELSE IF Head(xs) = <<>> THEN FilterNone(Tail(xs)) ELSE <<Head(xs)>> \o FilterNone(Tail(xs))

\* str.replace(old, "") : every occurrence, left to right
RECURSIVE Remove(_, _)
Remove(s, old) ==
    IF s = <<>> THEN <<>>
    ELSE IF IsPrefix(old, s) THEN Remove(Drop(s, Len(old)), old)
         ELSE <<Head(s)>> \o Remove(Tail(s), old)

StripComment(line) ==
    IF \E i \in 1..Len(line) : line[i] = "#"
    THEN SubSeq(line, 1, (CHOOSE i \in 1..Len(line) : line[i] = "#" /\ \A k \in 1..(i - 1) : line[k] # "#") - 1)
    ELSE line

Elements(line) == FilterNone(Split(StripComment(line), " "))

HasBracket(line) ==
    /\ \E i \in 1..Len(StripComment(line)) : StripComment(line)[i] = "["
    /\ \E i \in 1..Len(StripComment(line)) : StripComment(line)[i] = "]"

ElementIndex(line) == IF HasBracket(line) THEN 3 ELSE 2

\* the line parses without an IndexError
RepositoryParses(line) ==
    /\ Len(Elements(line)) >= 1
    /\ Len(Elements(line)) >= ElementIndex(line)

\* the architecture list: the default is appended to the empty list when the
\* line has no bracket
ArchitecturesUnset(line, defaultArch) ==
    IF HasBracket(line)
    THEN Split(Remove(Split(Split(StripComment(line), "[")[2], "]")[1], <<"arch", "=">>), ",")
    ELSE <<>>

Architectures(line, defaultArch) ==
    IF HasBracket(line)
    THEN Split(Remove(Split(Split(StripComment(line), "[")[2], "]")[1], <<"arch", "=">>), ",")
    ELSE <<defaultArch>>

Repository(line, defaultArch) ==
    LET elements == Elements(line)
        ei       == ElementIndex(line)
        isDist   == Len(elements) > ei /\ elements[ei + 1] # <<"/">>
    IN  [ repositoryType |-> IF elements[1] = <<"deb">> THEN "Bin"
                             ELSE IF Contains(elements[1], <<"deb", "-", "src">>) THEN "Src"
                             ELSE "Bin",
          architectures  |-> Architectures(line, defaultArch),
          uri            |-> elements[ei],
          distribution   |-> IF isDist THEN elements[ei + 1] ELSE <<>>,
          components     |-> IF isDist THEN SubSeq(elements, ei + 2, Len(elements)) ELSE <<>>,
          clean          |-> TRUE,
          packageCollection |-> <<>>,
          sourceCollection  |-> <<>> ]

----------------------------------------------------------------------------
(* refrapt.py : GetSources *)

StartsWith(line, tok) == line # <<>> /\ Head(line) = tok

RECURSIVE ParseDebLines(_, _)
ParseDebLines(configData, defaultArch) ==
    IF configData = <<>> THEN <<>>
    ELSE IF StartsWith(Head(configData), "deb")
         THEN <<Repository(Head(configData), defaultArch)>> \o ParseDebLines(Tail(configData), defaultArch)
         ELSE ParseDebLines(Tail(configData), defaultArch)

\* index of the first source whose Uri equals uri (source[0]), 0 if there is none
FirstWithUri(srcs, uri) ==
    IF \E i \in 1..Len(srcs) : srcs[i].uri = uri
    THEN CHOOSE i \in 1..Len(srcs) : srcs[i].uri = uri /\ \A k \in 1..(i - 1) : srcs[k].uri # uri
    ELSE 0

RECURSIVE ApplyCleanLines(_, _)
ApplyCleanLines(srcs, configData) ==
    IF configData = <<>> THEN srcs
    ELSE LET line == Head(configData)
             uri  == Split(line, " ")[2]
             i    == FirstWithUri(srcs, uri)
         IN  IF StartsWith(line, "clean") /\ Contains(line, <<"False">>)
             THEN ApplyCleanLines([srcs EXCEPT ![i].clean = FALSE], Tail(configData))
             ELSE ApplyCleanLines(srcs, Tail(configData))

\* source[0] of an empty list raises IndexError
GetSourcesRaises(configData, defaultArch) ==
    \E n \in 1..Len(configData) :
        /\ StartsWith(configData[n], "clean") /\ Contains(configData[n], <<"False">>)
        /\ FirstWithUri(ParseDebLines(configData, defaultArch), Split(configData[n], " ")[2]) = 0

GetSources(configData, defaultArch) ==
    ApplyCleanLines(ParseDebLines(configData, defaultArch), configData)

----------------------------------------------------------------------------
(* settings.py : the options the pipeline reads.  Settings.Init gives the  *)
(* defaults; the configuration file sets test, forceUpdate, disableClean   *)
(* and threads, the command line may enable test.                          *)

DefaultArch == <<"amd64">>

Contents(st) == st.contents

\* a byHash option that is always on
ByHashOn(st) == TRUE

ByHash(st) == st.byHash

Language(st) == st.language

\* a test flag that is never honoured
TestIgnored(st) == FALSE

Test(st) == st.test

\* Settings.EnableTest(), when the command line has --test
EnableTest(st, cli) == IF cli THEN [st EXCEPT !.test = TRUE] ELSE st

SettingsThreads(st) == st.threads

\* a forceUpdate option that is never honoured
ForceUpdateIgnored(st) == FALSE

ForceUpdate(st) == st.forceUpdate

CleanEnabled(st) == st.disableClean = FALSE

\* Settings.Force(), read by the collections under the name
\* PreviousRunInterrupted: the flag Settings.SetForce() raises
\* a flag that GetFiles never sees raised
ForceLowered(f) == FALSE

Force(f) == f

----------------------------------------------------------------------------
(* Files.  A file record is [mtime, size, body, partial]; body is the set  *)
(* of entries a Release or Packages/Sources file lists, each entry         *)
(* [name, size]; an artifact has an empty body.                            *)

NoFiles == <<>>

\* the file system resolves a path as normpath does
isfile(fs, path) == normpath(path) \in DOMAIN fs

getmtime(fs, path) == fs[normpath(path)].mtime

getsize(fs, path) == fs[normpath(path)].size

ReadFile(fs, path) == fs[normpath(path)]

WriteFile(fs, path, rec) == (normpath(path) :> rec) @@ fs

RemoveFiles(fs, paths) == [p \in (DOMAIN fs) \ paths |-> fs[p]]

File(mtime, size, body) == [mtime |-> mtime, size |-> size, body |-> body, partial |-> FALSE]

PartialFile(mtime) == [mtime |-> mtime, size |-> 0, body |-> {}, partial |-> TRUE]

Join(a, b) == a \o <<"/">> \o b

----------------------------------------------------------------------------
(* classes.py : Repository.GetReleaseFiles, the base URL *)

BaseUrl(r) ==
    IF r.components # <<>>
    THEN r.uri \o <<"/">> \o <<"dists", "/">> \o r.distribution \o <<"/">>
    ELSE r.uri \o <<"/">>

GetReleaseFiles(r) ==
    << BaseUrl(r) \o <<"InRelease">>,
       BaseUrl(r) \o <<"Release">>,
       BaseUrl(r) \o <<"Release", ".", "gpg">> >>

----------------------------------------------------------------------------
(* classes.py : Repository._ParseReleaseFiles over the checksum entries of *)
(* the Release file.                                                       *)

SeqToSet(xs) == {xs[i] : i \in DOMAIN xs}

\* re.match(prefix, filename) and re.search(part, filename) for literal patterns
ReMatch(prefix, filename) == IsPrefix(prefix, filename)

ReSearch(part, filename) == Contains(filename, part)

\* [^./]*(\.gz|\.bz2|\.xz|$)$
IndexSuffix(rest) ==
    \E ext \in {<<>>, <<".", "gz">>, <<".", "bz2">>, <<".", "xz">>} :
        /\ Len(ext) <= Len(rest)
        /\ SubSeq(rest, Len(rest) - Len(ext) + 1, Len(rest)) = ext
        /\ \A i \in 1..(Len(rest) - Len(ext)) : rest[i] \notin {".", "/"}

ReIndex(prefix, filename) ==
    ReMatch(prefix, filename) /\ IndexSuffix(Drop(filename, Len(prefix)))

BinaryDir(c, a) == c \o <<"/", "binary", "-">> \o a \o <<"/">>

\* the policy patterns of one (component, architecture) of a Binary repository
BinMatches(st, c, a, filename) ==
    \/ Contents(st) /\ ReSearch(c \o <<"/", "Contents", "-">> \o a, filename)
    \/ ReMatch(BinaryDir(c, a) \o <<"Release">>, filename)
    \/ ReMatch(BinaryDir(c, a) \o <<"Packages">>, filename)
    \/ ReMatch(c \o <<"/", "cnf", "/", "Commands", "-">> \o a, filename)
    \/ ReMatch(c \o <<"/", "i18n", "/", "cnf", "/", "Commands", "-">> \o a, filename)
    \/ ReMatch(c \o <<"/", "i18n", "/", "Index">>, filename)
    \/ \E l \in SeqToSet(Language(st)) :
           ReMatch(c \o <<"/", "i18n", "/", "Translation", "-">> \o l, filename)
    \/ ReMatch(c \o <<"/", "dep11", "/", "Components", "-">> \o a \o <<".", "yml">>, filename)
    \/ \E i \in 1..Len(filename) :
           /\ ReMatch(c \o <<"/", "dep11", "/", "icons", "-">>, filename)
           /\ i > Len(c) + 6
           /\ SubSeq(filename, i, i + 1) = <<".", "tar">>
           /\ \A k \in (Len(c) + 6)..(i - 1) : filename[k] \notin {".", "/"}

BinIndexNames(r, st, names) ==
    { f \in names :
        \E a \in SeqToSet(r.architectures) :
            \/ Contents(st) /\ ReMatch(<<"Contents", "-">> \o a, f)
            \/ IF r.components # <<>>
               THEN \E c \in SeqToSet(r.components) : BinMatches(st, c, a, f)
               ELSE TRUE }

SrcIndexNames(r, names) ==
    { f \in names :
        \E c \in SeqToSet(r.components) :
            \/ ReMatch(c \o <<"/", "source", "/", "Release">>, f)
            \/ ReIndex(c \o <<"/", "source", "/", "Sources">>, f) }

\* the keys _packageCollection.Add / _sourceCollection.Add create
BinRegistered(r, names) ==
    IF r.components # <<>>
    THEN { <<c, a, SanitiseUri(BaseUrl(r) \o f)>> :
             <<c, a, f>> \in { x \in SeqToSet(r.components) \X SeqToSet(r.architectures) \X names :
                                 ReIndex(BinaryDir(x[1], x[2]) \o <<"Packages">>, x[3]) } }
    ELSE { <<<<"Flat">>, a, SanitiseUri(BaseUrl(r) \o f)>> :
             <<a, f>> \in SeqToSet(r.architectures) \X names }

SrcRegistered(r, names) ==
    { <<c, SanitiseUri(BaseUrl(r) \o f)>> :
        <<c, f>> \in { x \in SeqToSet(r.components) \X names :
                          ReIndex(x[1] \o <<"/", "source", "/", "Sources">>, x[2]) } }

Timestamp == [Current |-> 0, Download |-> 0]

\* the file the key of a collection entry names
KeyFile(key) == key[Len(key)]

\* PackageCollection / SourceCollection .DetermineCurrentTimestamps
DetermineCurrentTimestamps(coll, skelFs) ==
    [ key \in DOMAIN coll |->
        IF isfile(skelFs, KeyFile(key))
        THEN [coll[key] EXCEPT !.Current = getmtime(skelFs, SanitiseUri(KeyFile(key)))]
        ELSE coll[key] ]

InReleasePath(r) == SanitiseUri(BaseUrl(r)) \o <<"/", "InRelease">>

ReleasePath(r) == SanitiseUri(BaseUrl(r)) \o <<"/", "Release">>

\* open(releaseFileToRead) raises FileNotFoundError
ParseReleaseRaises(r, rootFs) == ~isfile(rootFs, InReleasePath(r)) /\ ~isfile(rootFs, ReleasePath(r))

ReleaseFileToRead(r, rootFs) ==
    IF ~isfile(rootFs, InReleasePath(r)) THEN ReleasePath(r) ELSE InReleasePath(r)

ReleaseNames(r, rootFs) == { e.name : e \in ReadFile(rootFs, ReleaseFileToRead(r, rootFs)).body }

\* index URLs compiled for every compressed form, listed in the Release file or not
ParseReleaseFilesAnyForm(r, st, rootFs) ==
    { BaseUrl(r) \o f \o ext :
        f \in { splitext(x) : x \in IF r.repositoryType = "Bin"
                                     THEN BinIndexNames(r, st, ReleaseNames(r, rootFs))
                                     ELSE SrcIndexNames(r, ReleaseNames(r, rootFs)) },
        ext \in {<<".", "xz">>, <<".", "gz">>} }

\* the checksum the Release file lists with a name, one per name
Checksum(f) == <<"sum", "_">> \o Remove(Remove(Remove(f, <<"/">>), <<".">>), <<"-">>)

\* the by-hash directory the patterns of one (component, architecture) give
\* a name, each with the checksum type of the listing
ByHashFamilies(st, c, a, filename) ==
    { fam \in { <<"binary", "-">> \o a, <<"cnf">>, <<"i18n">>, <<"dep11">> } :
        \/ /\ fam = <<"binary", "-">> \o a
           /\ \/ ReMatch(BinaryDir(c, a) \o <<"Release">>, filename)
              \/ ReMatch(BinaryDir(c, a) \o <<"Packages">>, filename)
        \/ /\ fam = <<"cnf">>
           /\ ReMatch(c \o <<"/", "cnf", "/", "Commands", "-">> \o a, filename)
        \/ /\ fam = <<"i18n">>
           /\ \/ ReMatch(c \o <<"/", "i18n", "/", "cnf", "/", "Commands", "-">> \o a, filename)
              \/ ReMatch(c \o <<"/", "i18n", "/", "Index">>, filename)
              \/ \E l \in SeqToSet(Language(st)) :
                     ReMatch(c \o <<"/", "i18n", "/", "Translation", "-">> \o l, filename)
        \/ /\ fam = <<"dep11">>
           /\ \/ ReMatch(c \o <<"/", "dep11", "/", "Components", "-">> \o a \o <<".", "yml">>, filename)
              \/ \E i \in 1..Len(filename) :
                     /\ ReMatch(c \o <<"/", "dep11", "/", "icons", "-">>, filename)
                     /\ i > Len(c) + 6
                     /\ SubSeq(filename, i, i + 1) = <<".", "tar">>
                     /\ \A k \in (Len(c) + 6)..(i - 1) : filename[k] \notin {".", "/"} }

\* the by-hash pseudo-URLs of a Binary repository with components
ByHashUrls(r, st, names) ==
    IF ByHash(st) /\ r.repositoryType = "Bin" /\ r.components # <<>>
    THEN { BaseUrl(r) \o x[1] \o <<"/">> \o x[4] \o <<"/", "by", "-", "hash", "/", "SHA256", "/">> \o Checksum(x[3]) :
             x \in { y \in SeqToSet(r.components) \X SeqToSet(r.architectures) \X names
                              \X ({ <<"binary", "-">> \o a : a \in SeqToSet(r.architectures) }
                                  \cup { <<"cnf">>, <<"i18n">>, <<"dep11">> }) :
                        y[4] \in ByHashFamilies(st, y[1], y[2], y[3]) } }
    ELSE {}

\* the list of index URLs _ParseReleaseFiles returns
ParseReleaseFiles(r, st, rootFs) ==
    { BaseUrl(r) \o f :
        f \in IF r.repositoryType = "Bin"
              THEN BinIndexNames(r, st, ReleaseNames(r, rootFs))
              ELSE SrcIndexNames(r, ReleaseNames(r, rootFs)) }
    \cup ByHashUrls(r, st, ReleaseNames(r, rootFs))

\* the repository after _ParseReleaseFiles: files registered, Current set
ParsedRepository(r, rootFs, skelFs) ==
    IF r.repositoryType = "Bin"
    THEN [r EXCEPT !.packageCollection =
            DetermineCurrentTimestamps(
                [key \in BinRegistered(r, ReleaseNames(r, rootFs)) |-> Timestamp] @@ r.packageCollection,
                skelFs)]
    ELSE [r EXCEPT !.sourceCollection =
            DetermineCurrentTimestamps(
                [key \in SrcRegistered(r, ReleaseNames(r, rootFs)) |-> Timestamp] @@ r.sourceCollection,
                skelFs)]

----------------------------------------------------------------------------
(* classes.py : the index collections after the index download *)

\* the entries of the files that are missing stay as they are
DetermineDownloadTimestampsKeep(coll, skelFs) ==
    [ key \in DOMAIN coll |->
        IF isfile(skelFs, KeyFile(key))
        THEN [coll[key] EXCEPT !.Download = getmtime(skelFs, SanitiseUri(KeyFile(key)))]
        ELSE coll[key] ]

\* PackageCollection / SourceCollection .DetermineDownloadTimestamps
DetermineDownloadTimestamps(coll, skelFs) ==
    [ key \in { k \in DOMAIN coll : isfile(skelFs, KeyFile(k)) } |->
        [coll[key] EXCEPT !.Download = getmtime(skelFs, SanitiseUri(KeyFile(key)))] ]

\* a file taken as modified whatever its timestamps are
ModifiedAlways(ts) == TRUE

\* Timestamp.Modified
Modified(ts) == ts.Current # ts.Download

\* every file registered, whatever is asked for
GetFilesAll(coll, modified, st, f) == { splitext(KeyFile(key)) : key \in DOMAIN coll }

\* PackageCollection / SourceCollection ._GetFiles
GetFiles(coll, modified, st, f) ==
    { splitext(KeyFile(key)) :
        key \in { k \in DOMAIN coll :
                    IF modified
                    THEN Modified(coll[k]) \/ Force(f) \/ ForceUpdate(st)
                    ELSE ~Modified(coll[k]) \/ Force(f) \/ ForceUpdate(st) } }

IndexCollection(r) ==
    IF r.repositoryType = "Bin" THEN r.packageCollection ELSE r.sourceCollection

\* Repository.Timestamp
RepositoryTimestamp(r, skelFs) ==
    IF r.repositoryType = "Bin"
    THEN [r EXCEPT !.packageCollection = DetermineDownloadTimestamps(r.packageCollection, skelFs)]
    ELSE [r EXCEPT !.sourceCollection = DetermineDownloadTimestamps(r.sourceCollection, skelFs)]

\* Repository._GetIndexFiles
GetIndexFiles(r, modified, st, f) == GetFiles(IndexCollection(r), modified, st, f)

\* Repository.Modified
RepositoryModified(r, st, f) == GetFiles(IndexCollection(r), TRUE, st, f) # {}

----------------------------------------------------------------------------
(* refrapt.py : UnzipFile, NeedUpdate, ProcessIndex, ProcessUnmodifiedIndex *)

Ext(file, e) == file \o <<".", e>>

\* the compressed file UnzipFile expands into file, <<>> if there is none
UnzipSource(fs, file) ==
    IF isfile(fs, Ext(file, "gz")) THEN Ext(file, "gz")
    ELSE IF isfile(fs, Ext(file, "xz")) THEN Ext(file, "xz")
    ELSE IF isfile(fs, Ext(file, "bz2")) THEN Ext(file, "bz2")
    ELSE <<>>

\* expanding a truncated file raises
UnzipRaises(fs, file) == UnzipSource(fs, file) # <<>> /\ ReadFile(fs, UnzipSource(fs, file)).partial

UnzipFile(fs, file, now) ==
    IF UnzipSource(fs, file) = <<>> THEN fs
    ELSE WriteFile(fs, file, File(now, ReadFile(fs, UnzipSource(fs, file)).size,
                                  ReadFile(fs, UnzipSource(fs, file)).body))

RECURSIVE UnzipAll(_, _, _)
UnzipAll(fs, files, now) ==
    IF files = {} THEN fs
    ELSE LET file == CHOOSE x \in files : TRUE
         IN  UnzipAll(UnzipFile(fs, file, now), files \ {file}, now)

\* only the presence of the file is looked at
NeedUpdateAbsent(mirrorFs, path, size, st) == ~isfile(mirrorFs, path)

NeedUpdate(mirrorFs, path, size, st) ==
    IF ForceUpdate(st) THEN TRUE
    ELSE IF isfile(mirrorFs, path) THEN getsize(mirrorFs, path) # size
    ELSE TRUE

\* filename[2:] when filename.startswith("./")
StripDotSlash(filename) == IF IsPrefix(<<".", "/">>, filename) THEN Drop(filename, 2) ELSE filename

\* the index file ProcessIndex opens for an entry of GetIndexFiles
IndexPath(uri, file) == SanitiseUri(uri) \o <<"/">> \o Drop(file, Len(SanitiseUri(uri)))

\* open(index) raises FileNotFoundError
ProcessIndexRaises(skelFs, uri, file) == ~isfile(skelFs, IndexPath(uri, file))

Packages(skelFs, uri, file) == ReadFile(skelFs, IndexPath(uri, file)).body

\* what ProcessIndex appends to filesToKeep
ProcessIndexKeep(skelFs, uri, file) ==
    { normpath(SanitiseUri(uri) \o <<"/">> \o StripDotSlash(pkg.name)) : pkg \in Packages(skelFs, uri, file) }

\* the (url, size) pairs ProcessIndex returns
ProcessIndex(skelFs, mirrorFs, uri, file, st) ==
    { <<uri \o <<"/">> \o StripDotSlash(pkg.name), pkg.size>> :
        pkg \in { q \in Packages(skelFs, uri, file) :
                    NeedUpdate(mirrorFs, SanitiseUri(uri) \o <<"/">> \o StripDotSlash(q.name), q.size, st) } }

\* what ProcessUnmodifiedIndex appends to filesToKeep
ProcessUnmodifiedIndex(skelFs, uri, file) ==
    { normpath(SanitiseUri(uri) \o <<"/">> \o pkg.name) : pkg \in Packages(skelFs, uri, file) }

----------------------------------------------------------------------------
(* refrapt.py : main, 5. Copy Skel to Main Archive *)

\* a copy of every staged file, whatever the mirror holds
CopyNeededAlways(skelFs, mirrorFs, indexUrl) == isfile(skelFs, SanitiseUri(indexUrl))

CopyNeeded(skelFs, mirrorFs, indexUrl) ==
    /\ isfile(skelFs, SanitiseUri(indexUrl))
    /\ IF isfile(mirrorFs, SanitiseUri(indexUrl))
       THEN getmtime(skelFs, SanitiseUri(indexUrl)) > getmtime(mirrorFs, SanitiseUri(indexUrl))
       ELSE TRUE

\* shutil.copyfile: the copy carries the time of the copy
CopySkelToMirror(skelFs, mirrorFs, keep, now) ==
    [ p \in { normpath(SanitiseUri(k)) : k \in { x \in keep : CopyNeeded(skelFs, mirrorFs, x) } } |->
        [ReadFile(skelFs, p) EXCEPT !.mtime = now] ] @@ mirrorFs

----------------------------------------------------------------------------
(* refrapt.py : Clean *)

CleanSources(srcs, st, f) ==
    { i \in DOMAIN srcs : srcs[i].clean /\ RepositoryModified(srcs[i], st, f) }

\* [x for x in sources if x.Uri in cleanSource.Uri]
AllUriSources(srcs, st, f) ==
    { i \in DOMAIN srcs : \E c \in CleanSources(srcs, st, f) : Contains(srcs[c].uri, srcs[i].uri) }

CleanUnmodifiedRaises(srcs, skelFs, st, f) ==
    \E i \in AllUriSources(srcs, st, f) :
        \E file \in GetIndexFiles(srcs[i], FALSE, st, f) : ProcessIndexRaises(skelFs, srcs[i].uri, file)

\* filesToKeep after the unmodified indices were read
RequiredFiles(srcs, skelFs, keep, st, f) ==
    keep \cup UNION { ProcessUnmodifiedIndex(skelFs, srcs[i].uri, file) :
                        <<i, file>> \in { x \in AllUriSources(srcs, st, f) \X
                                                  UNION { GetIndexFiles(srcs[j], FALSE, st, f) : j \in DOMAIN srcs } :
                                            x[2] \in GetIndexFiles(srcs[x[1]], FALSE, st, f) } }

\* os.walk(SanitiseUri(uri)) : the files below that directory of the mirror
Walk(mirrorFs, uri) ==
    { p \in DOMAIN mirrorFs : IsPrefix(normpath(SanitiseUri(uri)) \o <<"/">>, p) }

CleanUris(srcs, st, f) == { srcs[i].uri : i \in CleanSources(srcs, st, f) }

\* a sweep that leaves the dists directories alone
ItemsOutsideDists(srcs, skelFs, mirrorFs, keep, st, f) ==
    { x \in UNION { Walk(mirrorFs, uri) : uri \in CleanUris(srcs, st, f) } :
        /\ normpath(x) \notin RequiredFiles(srcs, skelFs, keep, st, f)
        /\ ~Contains(x, <<"/", "dists", "/">>) }

\* items, as a set
Items(srcs, skelFs, mirrorFs, keep, st, f) ==
    { x \in UNION { Walk(mirrorFs, uri) : uri \in CleanUris(srcs, st, f) } :
        normpath(x) \notin RequiredFiles(srcs, skelFs, keep, st, f) }

\* items the walks of two uris both list: the second os.remove raises
DupItems(srcs, skelFs, mirrorFs, keep, st, f) ==
    { x \in Items(srcs, skelFs, mirrorFs, keep, st, f) :
        \E u, v \in CleanUris(srcs, st, f) : u # v /\ x \in Walk(mirrorFs, u) /\ x \in Walk(mirrorFs, v) }

----------------------------------------------------------------------------
(* The configurations and the upstream repositories of the model *)

UA == <<"http", ":", "/", "/", "a">>

UB == <<"http", ":", "/", "/", "b">>

UAX == UA \o <<"/", "x">>

DebLine(uri) == <<"deb", " ">> \o uri \o <<" ", "d", " ", "main">>

DebSrcLine(uri) == <<"deb", "-", "src", " ">> \o uri \o <<" ", "d", " ", "main">>

CleanLine(uri) == <<"clean", " ">> \o uri \o <<" ", "False">>

Configs ==
    { <<>>,
      <<DebLine(UA)>>,
      <<DebLine(UA), CleanLine(UA)>>,
      <<DebLine(UA), DebSrcLine(UA)>>,
      <<DebLine(UA), DebSrcLine(UA), CleanLine(UA)>>,
      <<DebLine(UA), DebLine(UB)>>,
      <<DebLine(UA), DebLine(UAX), CleanLine(UAX)>> }

SettingsDefault ==
    [test |-> FALSE, forceUpdate |-> FALSE, disableClean |-> FALSE, threads |-> 1,
     contents |-> TRUE, language |-> <<<<"en">>>>, byHash |-> FALSE]

\* the configuration file sets at most one of test, forceUpdate, disableClean
SettingsChoices ==
    { SettingsDefault,
      [SettingsDefault EXCEPT !.test = TRUE],
      [SettingsDefault EXCEPT !.forceUpdate = TRUE],
      [SettingsDefault EXCEPT !.disableClean = TRUE] }

Dists(uri) == uri \o <<"/", "dists", "/", "d", "/">>

PackagesName == <<"main", "/", "binary", "-", "amd64", "/", "Packages">>

SourcesName == <<"main", "/", "source", "/", "Sources">>

P1 == [name |-> <<"pool", "/", "p1", ".", "deb">>, size |-> 1]

P1b == [name |-> <<"pool", "/", "p1", ".", "deb">>, size |-> 2]

P2 == [name |-> <<".", "/", "pool", "/", "p2", ".", "deb">>, size |-> 1]

S1 == [name |-> <<"pool", "/", "s1", ".", "dsc">>, size |-> 1]

IndexBodies(name) == IF name = PackagesName THEN {{P1}, {P2}, {P1b}} ELSE {{S1}, {}}

IndexForms(name) == IF name = PackagesName THEN {"xz", "gz"} ELSE {"xz"}

\* the sets of compressed forms upstream publishes an index in
FormChoices(name) == IF name = PackagesName THEN {{"xz", "gz"}, {"xz"}} ELSE {{"xz"}}

ConfigUris(cfg) == { r.uri : r \in SeqToSet(ParseDebLines(cfg, DefaultArch)) }

Entry(name) == [name |-> name, size |-> 1]

\* the index names the repositories the configuration declares at uri u read
UsedNames(cfg, u) ==
    { IF r.repositoryType = "Bin" THEN PackagesName ELSE SourcesName :
        r \in { x \in SeqToSet(ParseDebLines(cfg, DefaultArch)) : x.uri = u } }

\* upstream at the start: InRelease lists every form of the indices in use,
\* Packages declares p1 and Sources declares s1
InitialUpstream(cfg) ==
    LET uris == ConfigUris(cfg)
        names(u) == UsedNames(cfg, u)
        files(u) ==
            (Dists(u) \o <<"InRelease">> :>
                File(1, 1, UNION { { Entry(Ext(n, e)) : e \in IndexForms(n) } : n \in names(u) }))
            @@ [ url \in UNION { { Dists(u) \o Ext(n, e) : e \in IndexForms(n) } : n \in names(u) } |->
                    File(1, 1, IF \E e \in IndexForms(PackagesName) : url = Dists(u) \o Ext(PackagesName, e)
                               THEN {P1} ELSE {S1}) ]
            @@ [ url \in { u \o <<"/">> \o x.name :
                             x \in (IF PackagesName \in names(u) THEN {P1} ELSE {})
                                    \cup (IF SourcesName \in names(u) THEN {S1} ELSE {}) } |-> File(1, 1, {}) ]
        urls == UNION { DOMAIN files(u) : u \in uris }
    IN  [ url \in urls |-> files(CHOOSE u \in uris : url \in DOMAIN files(u))[url] ]

RECURSIVE SetToSeq(_)
SetToSeq(S) ==
    IF S = {} THEN <<>>
    ELSE LET x == CHOOSE y \in S : TRUE IN <<x>> \o SetToSeq(S \ {x})

RECURSIVE FlattenSeq(_)
FlattenSeq(xss) == IF xss = <<>> THEN <<>> ELSE Head(xss) \o FlattenSeq(Tail(xss))

----------------------------------------------------------------------------
(* State *)

VARIABLES
    configData,      \* the repository and clean lines of the configuration file
    options,         \* the options the configuration file sets
    settings,        \* Settings._settings of the run
    up,              \* upstream: url -> file
    skel,            \* staging tree: path -> file
    mirror,          \* live mirror tree: path -> file
    var,             \* var directory: name -> content
    clock,           \* the time
    pc,              \* position of main
    sources,         \* the global list sources
    force,           \* Settings._force
    filesToKeep,     \* the Reference Set
    filesToDownload, \* the artifact fetch plan, (url, size) pairs
    releaseFiles,    \* the Release URLs compiled in stage 1
    indexFiles,      \* the index URLs compiled in stage 2
    kind,            \* UrlType of the download in progress
    queue,           \* urls the pool has not handed out yet
    inflight,        \* worker -> url being transferred, <<>> if idle
    runs, kills, changes,
    lockAtStart,     \* the app lock file was in var when this run started
    lockUrls,        \* the urls the per-URL lock files held when this run started
    started,         \* artifact urls whose transfer began in this run
    cleanResult,     \* how Clean ended in this run
    cleanItems,      \* items of Clean
    cleanRequired,   \* requiredFiles of Clean
    deleted,         \* mirror paths Clean removed in this run
    unzipped,        \* the index files DecompressReleaseFiles expanded in this run
    parsed,          \* the (source, index) pairs the plan was built from in this run
    mirrorAtStart,   \* the mirror when this run started
    settled,         \* the last run completed and upstream has not changed since
    afterSettled,    \* this run started in a settled state
    raised,          \* the run ended by an exception
    repoLine,        \* Repository(line, defaultArch) : the line
    repoArch,        \* Repository(line, defaultArch) : the default architecture
    repoResult,      \* Repository(line, defaultArch) : how the call ended
    parseConfig,     \* Settings.Parse(config) : the lines
    parseResult,     \* Settings.Parse(config) : how the call ended
    uriArg,          \* SanitiseUri(uri) : the uri of the first call
    uriResults,      \* SanitiseUri(uri) : what the calls returned, each called on the result before
    relRepository,   \* _ParseReleaseFiles : the repository
    relSettings,     \* _ParseReleaseFiles : the settings
    relRoot,         \* _ParseReleaseFiles : the tree that holds the Release file
    relResult,       \* _ParseReleaseFiles : how the call ended
    relParsed,       \* _ParseReleaseFiles : the repository after the call, <<>> before it
    indexLines,      \* Index : the lines of the file
    indexResult,     \* Index.Read and Index.GetPackages : how the calls ended
    collFiles,       \* PackageCollection : the files registered and their timestamps
    collFlags,       \* PackageCollection : Settings.ForceUpdate() and Settings.Force()
    collResult       \* ModifiedFiles and UnmodifiedFiles : how the calls ended

vars == << configData, options, settings, up, skel, mirror, var, clock, pc, sources, force,
           filesToKeep, filesToDownload, releaseFiles, indexFiles, kind, queue, inflight,
           runs, kills, changes, lockAtStart, lockUrls, started,
           cleanResult, cleanItems, cleanRequired, deleted, unzipped, parsed, mirrorAtStart,
           settled, afterSettled, raised, repoLine, repoArch, repoResult,
           parseConfig, parseResult, uriArg, uriResults,
           relRepository, relSettings, relRoot, relResult, relParsed,
           indexLines, indexResult, collFiles, collFlags, collResult >>

\* the calls of single functions, outside a run
repositoryVars == << repoLine, repoArch, repoResult >>

parseVars == << parseConfig, parseResult >>

sanitiseVars == << uriArg, uriResults >>

releaseVars == << relRepository, relSettings, relRoot, relResult, relParsed >>

indexVars == << indexLines, indexResult >>

collectionVars == << collFiles, collFlags, collResult >>

callVars == << repositoryVars, parseVars, sanitiseVars, releaseVars, indexVars, collectionVars >>

envVars == << configData, options, settings, up, callVars >>

ghostVars == << lockAtStart, lockUrls, started, cleanResult, cleanItems, cleanRequired, deleted,
                unzipped, parsed, mirrorAtStart, settled, afterSettled >>

Workers == 1..SettingsThreads(settings)

WorkerId == <<"1", "2", "3", "4">>

appLockFile == <<"refrapt", "-", "lock">>

\* one lock file name for every worker
DownloadLockShared(w) == <<"Download", "-", "lock", ".", "1">>

DownloadLock(w) == <<"Download", "-", "lock", ".", WorkerId[w]>>

DotLock(name) == name \o <<".", "lock">>

Idle == [w \in 1..MaxThreads |-> <<>>]

Stopped == pc \in {"idle", "done", "dead", "exit"}

InitRest ==
    /\ settings = options
    /\ up = InitialUpstream(configData)
    /\ skel = NoFiles
    /\ mirror = NoFiles
    /\ var = NoFiles
    /\ clock = 1
    /\ pc = "idle"
    /\ sources = <<>>
    /\ force = FALSE
    /\ filesToKeep = {}
    /\ filesToDownload = {}
    /\ releaseFiles = <<>>
    /\ indexFiles = <<>>
    /\ kind = "Release"
    /\ queue = <<>>
    /\ inflight = Idle
    /\ runs = 0
    /\ kills = 0
    /\ changes = 0
    /\ lockAtStart = FALSE
    /\ lockUrls = {}
    /\ started = {}
    /\ cleanResult = "none"
    /\ cleanItems = {}
    /\ cleanRequired = {}
    /\ deleted = {}
    /\ unzipped = {}
    /\ parsed = {}
    /\ mirrorAtStart = NoFiles
    /\ settled = FALSE
    /\ afterSettled = FALSE
    /\ raised = FALSE

\* the exit status of the process once it has stopped, -1 while it runs:
\* sys.exit() without an argument and the end of main give 0, an uncaught
\* exception gives 1, a kill gives the status of the signal
ExitStatus ==
    IF pc \in {"exit", "done"} THEN 0
    ELSE IF pc = "dead" THEN (IF raised THEN 1 ELSE 137)
    ELSE -1

\* no call made
NotCalled == [called |-> FALSE, raised |-> "none", value |-> <<>>]

Returned(v) == [called |-> TRUE, raised |-> "none", value |-> <<v>>]

Raised(e) == [called |-> TRUE, raised |-> e, value |-> <<>>]

RepositoryIdle ==
    /\ repoLine = <<>>
    /\ repoArch = <<>>
    /\ repoResult = NotCalled

ParseIdle ==
    /\ parseConfig = <<>>
    /\ parseResult = NotCalled

SanitiseIdle ==
    /\ uriArg = <<>>
    /\ uriResults = <<>>

ReleaseIdle ==
    /\ relRepository = <<>>
    /\ relSettings = <<>>
    /\ relRoot = NoFiles
    /\ relResult = NotCalled
    /\ relParsed = <<>>

IndexIdle ==
    /\ indexLines = <<>>
    /\ indexResult = NotCalled

CollectionIdle ==
    /\ collFiles = <<>>
    /\ collFlags = [forceUpdate |-> FALSE, force |-> FALSE]
    /\ collResult = NotCalled

CallsIdle == RepositoryIdle /\ ParseIdle /\ SanitiseIdle /\ ReleaseIdle /\ IndexIdle /\ CollectionIdle

\* one worker: the stages of a run one after the other
Init ==
    /\ configData \in Configs
    /\ options \in SettingsChoices
    /\ InitRest
    /\ CallsIdle

----------------------------------------------------------------------------
(* refrapt.py : main, up to the app lock *)

\* Downloader.Init : the ".lock" files go
DownloaderInit(varFs) ==
    RemoveFiles(varFs, { n \in DOMAIN varFs : Contains(n, <<".", "lock">>) })

\* the urls the "Download-lock" files record
RecordedUrls(varFs) ==
    { varFs[n] : n \in { m \in DOMAIN varFs : Contains(m, <<"Download", "-", "lock">>) } }

\* the lock scan removes the partial download from the mirror, else from var
ScanMirror(mirrorFs, varFs) ==
    RemoveFiles(mirrorFs, { normpath(SanitiseUri(u)) : u \in RecordedUrls(varFs) })

ScanVar(mirrorFs, varFs) ==
    RemoveFiles(varFs, { normpath(SanitiseUri(u)) :
                            u \in { x \in RecordedUrls(varFs) : ~isfile(mirrorFs, SanitiseUri(x)) } })

AppLockFound(varFs) == \E n \in DOMAIN varFs : Contains(n, appLockFile)

ResetRun ==
    /\ filesToKeep' = {}
    /\ filesToDownload' = {}
    /\ releaseFiles' = <<>>
    /\ indexFiles' = <<>>
    /\ kind' = "Release"
    /\ queue' = <<>>
    /\ inflight' = Idle
    /\ started' = {}
    /\ cleanResult' = "none"
    /\ cleanItems' = {}
    /\ cleanRequired' = {}
    /\ deleted' = {}
    /\ unzipped' = {}
    /\ parsed' = {}
    /\ mirrorAtStart' = mirror
    /\ afterSettled' = settled
    /\ settled' = FALSE

\* main, lines 55-108: configuration, sources, Downloader.Init, the lock scan
StartRun(cli) ==
    /\ pc \in {"idle", "done", "dead"}
    /\ runs < MaxRuns
    /\ cli => ~Test(options)
    /\ settings' = EnableTest(options, cli)
    /\ runs' = runs + 1
    /\ clock' = clock + 1
    /\ ResetRun
    /\ IF GetSourcesRaises(configData, DefaultArch)
       THEN /\ pc' = "dead"
            /\ raised' = TRUE
            /\ sources' = <<>>
            /\ force' = FALSE
            /\ lockAtStart' = FALSE
            /\ lockUrls' = {}
            /\ UNCHANGED << mirror, var >>
       ELSE /\ sources' = GetSources(configData, DefaultArch)
            /\ raised' = FALSE
            /\ IF sources' = <<>>
               THEN /\ pc' = "exit"
                    /\ force' = FALSE
                    /\ lockAtStart' = FALSE
                    /\ lockUrls' = {}
                    /\ UNCHANGED << mirror, var >>
               ELSE /\ pc' = "clearvar"
                    /\ force' = AppLockFound(DownloaderInit(var))
                    /\ lockAtStart' = isfile(var, appLockFile)
                    /\ lockUrls' = RecordedUrls(DownloaderInit(var))
                    /\ mirror' = ScanMirror(mirror, DownloaderInit(var))
                    /\ var' = ScanVar(mirror, DownloaderInit(var))
    /\ UNCHANGED << configData, options, up, skel, kills, changes, callVars >>

\* main, lines 110-113: one os.remove of the loop over var
ClearVar ==
    /\ pc = "clearvar"
    /\ \E n \in DOMAIN var : var' = RemoveFiles(var, {n})
    /\ UNCHANGED << envVars, skel, mirror, clock, pc, sources, force, filesToKeep, filesToDownload,
                    releaseFiles, indexFiles, kind, queue, inflight, runs, kills, changes,
                    ghostVars, raised >>

\* main, lines 115-136: the app lock, the Release urls, the call of Download
AcquireLock ==
    /\ pc = "clearvar"
    /\ DOMAIN var = {}
    /\ var' = WriteFile(WriteFile(var, DotLock(appLockFile), <<>>), appLockFile, <<>>)
    /\ releaseFiles' = FlattenSeq([i \in DOMAIN sources |-> GetReleaseFiles(sources[i])])
    /\ filesToKeep' = filesToKeep \cup { normpath(SanitiseUri(u)) : u \in SeqToSet(releaseFiles') }
    /\ kind' = "Release"
    /\ queue' = releaseFiles'
    /\ pc' = "release"
    /\ UNCHANGED << envVars, skel, mirror, clock, sources, force, filesToDownload, indexFiles,
                    inflight, runs, kills, changes, ghostVars, raised >>

----------------------------------------------------------------------------
(* classes.py : Downloader.Download, Downloader.DownloadUrlsProcess *)

Downloading == pc \in {"release", "index", "archive"}

\* wget -N --recursive url, run in the tree fs: the file is fetched when the
\* server has it and the local copy is missing, older or of another size
Wget(fs, url) ==
    IF url \in DOMAIN up
       /\ (\/ ~isfile(fs, SanitiseUri(url))
           \/ getmtime(fs, SanitiseUri(url)) < up[url].mtime
           \/ getsize(fs, SanitiseUri(url)) # up[url].size)
    THEN WriteFile(fs, SanitiseUri(url), up[url])
    ELSE fs

\* a transfer cut short leaves a truncated file
WgetKilled(fs, url) ==
    IF Wget(fs, url) # fs THEN WriteFile(fs, SanitiseUri(url), PartialFile(clock)) ELSE fs

\* a pool worker takes the next url: the lock, the lock file with the url
DownloadBegin(w) ==
    /\ Downloading
    /\ queue # <<>>
    /\ inflight[w] = <<>>
    /\ \A v \in Workers : v < w => inflight[v] # <<>>
    /\ inflight' = [inflight EXCEPT ![w] = Head(queue)]
    /\ queue' = Tail(queue)
    /\ var' = WriteFile(WriteFile(var, DotLock(DownloadLock(w)), <<>>), DownloadLock(w), Head(queue))
    /\ started' = IF kind = "Archive" THEN started \cup {Head(queue)} ELSE started
    /\ UNCHANGED << envVars, skel, mirror, clock, pc, sources, force, filesToKeep, filesToDownload,
                    releaseFiles, indexFiles, kind, runs, kills, changes,
                    lockAtStart, lockUrls, cleanResult, cleanItems, cleanRequired, deleted,
                    unzipped, parsed, mirrorAtStart, settled, afterSettled, raised >>

\* the transfer ends, the lock file is removed
DownloadEnd(w) ==
    /\ Downloading
    /\ inflight[w] # <<>>
    /\ IF kind = "Archive"
       THEN mirror' = Wget(mirror, inflight[w]) /\ skel' = skel
       ELSE skel' = Wget(skel, inflight[w]) /\ mirror' = mirror
    /\ var' = RemoveFiles(var, {DownloadLock(w)})
    /\ inflight' = [inflight EXCEPT ![w] = <<>>]
    /\ UNCHANGED << envVars, clock, pc, sources, force, filesToKeep, filesToDownload,
                    releaseFiles, indexFiles, kind, queue, runs, kills, changes, ghostVars, raised >>

\* a pool that is taken as finished at once
DrainedAlways == TRUE

\* Pool.imap_unordered consumed to its end: every url handed out and ended
Drained == queue = <<>> /\ inflight = Idle

\* an exception leaves main: the app lock file stays in var
Raise ==
    /\ pc' = "dead"
    /\ raised' = TRUE

----------------------------------------------------------------------------
(* refrapt.py : main, stages 2 to 6 *)

\* main, lines 138-150: every source parses its Release file
ParseRelease ==
    /\ pc = "release"
    /\ Drained
    /\ IF \E i \in DOMAIN sources : ParseReleaseRaises(sources[i], skel)
       THEN /\ Raise
            /\ UNCHANGED << sources, indexFiles, filesToKeep, kind, queue >>
       ELSE /\ sources' = [i \in DOMAIN sources |-> ParsedRepository(sources[i], skel, skel)]
            /\ indexFiles' = FlattenSeq([i \in DOMAIN sources |->
                                            SetToSeq(ParseReleaseFiles(sources[i], settings, skel))])
            /\ filesToKeep' = filesToKeep \cup { normpath(SanitiseUri(u)) : u \in SeqToSet(indexFiles') }
            /\ kind' = "Index"
            /\ queue' = indexFiles'
            /\ pc' = "index"
            /\ UNCHANGED raised
    /\ UNCHANGED << envVars, skel, mirror, var, clock, force, filesToDownload, releaseFiles,
                    inflight, runs, kills, changes, ghostVars >>

\* main, lines 152-153: source.Timestamp()
TimestampIndices ==
    /\ pc = "index"
    /\ Drained
    /\ sources' = [i \in DOMAIN sources |-> RepositoryTimestamp(sources[i], skel)]
    /\ pc' = "decompress"
    /\ UNCHANGED << envVars, skel, mirror, var, clock, force, filesToKeep, filesToDownload,
                    releaseFiles, indexFiles, kind, queue, inflight, runs, kills, changes,
                    ghostVars, raised >>

ModifiedIndexFiles == UNION { GetIndexFiles(sources[i], TRUE, settings, force) : i \in DOMAIN sources }

\* DecompressReleaseFiles
Decompress ==
    /\ pc = "decompress"
    /\ IF \E file \in ModifiedIndexFiles : UnzipRaises(skel, file)
       THEN Raise /\ UNCHANGED << skel, unzipped >>
       ELSE /\ skel' = UnzipAll(skel, ModifiedIndexFiles, clock)
            /\ unzipped' = ModifiedIndexFiles
            /\ pc' = "plan"
            /\ UNCHANGED raised
    /\ UNCHANGED << envVars, mirror, var, clock, sources, force, filesToKeep, filesToDownload,
                    releaseFiles, indexFiles, kind, queue, inflight, runs, kills, changes,
                    lockAtStart, lockUrls, started, cleanResult, cleanItems, cleanRequired, deleted,
                    parsed, mirrorAtStart, settled, afterSettled >>

\* the (source, index) pairs of the loop "Building file list"
PlanIndices ==
    { x \in (DOMAIN sources) \X ModifiedIndexFiles :
        /\ RepositoryModified(sources[x[1]], settings, force)
        /\ x[2] \in GetIndexFiles(sources[x[1]], TRUE, settings, force) }

\* main, lines 158-184: the plan, and the call of Download unless in test mode
BuildPlan ==
    /\ pc = "plan"
    /\ IF \E x \in PlanIndices : ProcessIndexRaises(skel, sources[x[1]].uri, x[2])
       THEN Raise /\ UNCHANGED << filesToDownload, filesToKeep, kind, queue, parsed >>
       ELSE /\ filesToDownload' =
                  UNION { ProcessIndex(skel, mirror, sources[x[1]].uri, x[2], settings) : x \in PlanIndices }
            /\ filesToKeep' = filesToKeep \cup
                  UNION { ProcessIndexKeep(skel, sources[x[1]].uri, x[2]) : x \in PlanIndices }
            /\ kind' = "Archive"
            /\ queue' = IF Test(settings) THEN <<>> ELSE SetToSeq({ d[1] : d \in filesToDownload' })
            /\ parsed' = PlanIndices
            /\ pc' = "archive"
            /\ UNCHANGED raised
    /\ UNCHANGED << envVars, skel, mirror, var, clock, sources, force, releaseFiles, indexFiles,
                    inflight, runs, kills, changes, lockAtStart, lockUrls, started, cleanResult,
                    cleanItems, cleanRequired, deleted, unzipped, mirrorAtStart, settled, afterSettled >>

\* main, lines 186-203: Copy Skel to Mirror
Promote ==
    /\ pc = "archive"
    /\ Drained
    /\ mirror' = IF Test(settings) THEN mirror ELSE CopySkelToMirror(skel, mirror, filesToKeep, clock)
    /\ pc' = "clean"
    /\ UNCHANGED << envVars, skel, var, clock, sources, force, filesToKeep, filesToDownload,
                    releaseFiles, indexFiles, kind, queue, inflight, runs, kills, changes,
                    ghostVars, raised >>

\* main, line 207: Clean()
CleanStep ==
    /\ pc = "clean"
    /\ LET required == RequiredFiles(sources, skel, filesToKeep, settings, force)
           items    == Items(sources, skel, mirror, filesToKeep, settings, force)
           dups     == DupItems(sources, skel, mirror, filesToKeep, settings, force)
       IN  IF CleanSources(sources, settings, force) = {}
           THEN /\ cleanResult' = "nothing to clean"
                /\ pc' = "finish"
                /\ UNCHANGED << mirror, filesToKeep, cleanItems, cleanRequired, deleted, raised >>
           ELSE IF CleanUnmodifiedRaises(sources, skel, settings, force)
           THEN /\ Raise
                /\ cleanResult' = "raised"
                /\ UNCHANGED << mirror, filesToKeep, cleanItems, cleanRequired, deleted >>
           ELSE /\ filesToKeep' = required
                /\ cleanRequired' = required
                /\ cleanItems' = items
                /\ IF items = {}
                   THEN /\ cleanResult' = "no files"
                        /\ pc' = "finish"
                        /\ UNCHANGED << mirror, deleted, raised >>
                   ELSE IF Test(settings)
                   THEN /\ cleanResult' = "test"
                        /\ pc' = "finish"
                        /\ UNCHANGED << mirror, deleted, raised >>
                   ELSE IF dups = {}
                   THEN /\ cleanResult' = "freed"
                        /\ mirror' = RemoveFiles(mirror, items)
                        /\ deleted' = items
                        /\ pc' = "finish"
                        /\ UNCHANGED raised
                   ELSE \E gone \in SUBSET (items \ dups) :
                        /\ Raise
                        /\ cleanResult' = "raised"
                        /\ mirror' = RemoveFiles(mirror, gone \cup dups)
                        /\ deleted' = gone \cup dups
    /\ UNCHANGED << envVars, skel, var, clock, sources, force, filesToDownload, releaseFiles,
                    indexFiles, kind, queue, inflight, runs, kills, changes, lockAtStart, lockUrls,
                    started, unzipped, parsed, mirrorAtStart, settled, afterSettled >>

\* main, lines 209-213: the lock files are removed
Finish ==
    /\ pc = "finish"
    /\ var' = RemoveFiles(var, {appLockFile, DotLock(appLockFile)})
    /\ pc' = "done"
    /\ settled' = TRUE
    /\ UNCHANGED << envVars, skel, mirror, clock, sources, force, filesToKeep, filesToDownload,
                    releaseFiles, indexFiles, kind, queue, inflight, runs, kills, changes,
                    lockAtStart, lockUrls, started, cleanResult, cleanItems, cleanRequired, deleted,
                    unzipped, parsed, mirrorAtStart, afterSettled, raised >>

----------------------------------------------------------------------------
(* The environment: upstream changes between runs, and the kill of a run *)

InReleaseUrl(u) == Dists(u) \o <<"InRelease">>

ListedForms(u, name) ==
    IF InReleaseUrl(u) \in DOMAIN up
    THEN { e \in IndexForms(name) : Entry(Ext(name, e)) \in up[InReleaseUrl(u)].body }
    ELSE {}

ServedBodies(u, name) ==
    { up[Dists(u) \o Ext(name, e)].body :
        e \in { x \in ListedForms(u, name) : Dists(u) \o Ext(name, x) \in DOMAIN up } }

\* upstream publishes the index name of u with the entries of body, in the
\* compressed forms of forms, and serves the artifacts it lists
UpstreamPublish(u, name, body, forms) ==
    /\ Stopped /\ pc # "exit"
    /\ changes < MaxChanges
    /\ InReleaseUrl(u) \in DOMAIN up
    /\ ServedBodies(u, name) # {body} \/ ListedForms(u, name) # forms
    /\ changes' = changes + 1
    /\ clock' = clock + 1
    /\ LET now      == clock + 1
           listing  == { x \in up[InReleaseUrl(u)].body : \A e \in IndexForms(name) : x # Entry(Ext(name, e)) }
                       \cup { Entry(Ext(name, e)) : e \in forms }
           kept     == { Dists(u) \o Ext(name, e) :
                           e \in { x \in forms : /\ Dists(u) \o Ext(name, x) \in DOMAIN up
                                                 /\ up[Dists(u) \o Ext(name, x)].body = body } }
           written  == { Dists(u) \o Ext(name, e) : e \in forms } \ kept
           dropped  == { Dists(u) \o Ext(name, e) : e \in IndexForms(name) \ forms }
           pkgs     == { pkg \in body :
                           \/ u \o <<"/">> \o StripDotSlash(pkg.name) \notin DOMAIN up
                           \/ up[u \o <<"/">> \o StripDotSlash(pkg.name)].size # pkg.size }
           base     == [ url \in (DOMAIN up) \ dropped |-> up[url] ]
       IN  up' = (InReleaseUrl(u) :> File(now, 1, listing))
                 @@ [ url \in written |-> File(now, 1, body) ]
                 @@ [ url \in { u \o <<"/">> \o StripDotSlash(pkg.name) : pkg \in pkgs } |->
                        File(now, (CHOOSE pkg \in pkgs : u \o <<"/">> \o StripDotSlash(pkg.name) = url).size, {}) ]
                 @@ base
    /\ settled' = FALSE
    /\ UNCHANGED << callVars, configData, options, settings, skel, mirror, var, pc, sources, force, filesToKeep,
                    filesToDownload, releaseFiles, indexFiles, kind, queue, inflight, runs, kills,
                    lockAtStart, lockUrls, started, cleanResult, cleanItems, cleanRequired, deleted,
                    unzipped, parsed, mirrorAtStart, afterSettled, raised >>

\* upstream stops serving a file (every later fetch of it fails)
UpstreamUnserve(url) ==
    /\ Stopped /\ pc # "exit"
    /\ changes < MaxChanges
    /\ url \in DOMAIN up
    /\ changes' = changes + 1
    /\ clock' = clock + 1
    /\ up' = [ x \in (DOMAIN up) \ {url} |-> up[x] ]
    /\ settled' = FALSE
    /\ UNCHANGED << callVars, configData, options, settings, skel, mirror, var, pc, sources, force, filesToKeep,
                    filesToDownload, releaseFiles, indexFiles, kind, queue, inflight, runs, kills,
                    lockAtStart, lockUrls, started, cleanResult, cleanItems, cleanRequired, deleted,
                    unzipped, parsed, mirrorAtStart, afterSettled, raised >>

\* the process is killed: the transfers in progress may leave truncated files
Kill ==
    /\ ~Stopped
    /\ kills < MaxKills
    /\ kills' = kills + 1
    /\ pc' = "dead"
    /\ \E cut \in SUBSET { w \in Workers : inflight[w] # <<>> } :
          LET tree(fs) == [ p \in { normpath(SanitiseUri(inflight[w])) : w \in cut } |-> PartialFile(clock) ] @@ fs
          IN  IF kind = "Archive"
              THEN mirror' = tree(mirror) /\ skel' = skel
              ELSE skel' = tree(skel) /\ mirror' = mirror
    /\ queue' = <<>>
    /\ inflight' = Idle
    /\ UNCHANGED << envVars, var, clock, sources, force, filesToKeep, filesToDownload,
                    releaseFiles, indexFiles, kind, runs, changes, ghostVars, raised >>

Run ==
    \/ \E cli \in BOOLEAN : StartRun(cli)
    \/ ClearVar
    \/ AcquireLock
    \/ \E w \in Workers : DownloadBegin(w)
    \/ \E w \in Workers : DownloadEnd(w)
    \/ ParseRelease
    \/ TimestampIndices
    \/ Decompress
    \/ BuildPlan
    \/ Promote
    \/ CleanStep
    \/ Finish

Upstream ==
    \/ \E u \in ConfigUris(configData) : \E name \in UsedNames(configData, u) :
          \E body \in IndexBodies(name) : \E forms \in FormChoices(name) :
             UpstreamPublish(u, name, body, forms)
    \/ \E url \in DOMAIN up : UpstreamUnserve(url)

Next == Run \/ Upstream

Spec == Init /\ [][Next]_vars

\* a pool of workers and the kill of a run, upstream fixed
InitKill ==
    /\ configData \in Configs
    /\ options \in { [o EXCEPT !.threads = MaxThreads] : o \in SettingsChoices }
    /\ InitRest
    /\ CallsIdle

NextKill == Run \/ Kill

SpecKill == InitKill /\ [][NextKill]_vars

\* a pool of workers and upstream changes between the runs, no kill
InitPool ==
    /\ configData \in { <<DebLine(UA)>>, <<DebLine(UA), DebSrcLine(UA)>> }
    /\ options = [SettingsDefault EXCEPT !.threads = MaxThreads]
    /\ InitRest
    /\ CallsIdle

SpecPool == InitPool /\ [][Next]_vars

\* the process is killed once more, in the startup of a run that found the
\* app lock: after the lock scan, while main removes the files of var
KillRestart ==
    /\ pc = "clearvar"
    /\ force
    /\ kills <= MaxKills
    /\ kills' = kills + 1
    /\ pc' = "dead"
    /\ UNCHANGED << envVars, skel, mirror, var, clock, sources, force, filesToKeep, filesToDownload,
                    releaseFiles, indexFiles, kind, queue, inflight, runs, changes, ghostVars, raised >>

InitRestart ==
    /\ configData = <<DebLine(UA)>>
    /\ options = SettingsDefault
    /\ InitRest
    /\ CallsIdle

NextRestart == Run \/ Kill \/ KillRestart

\* one worker, kills at any point of a run and in the startup of the next
SpecRestart == InitRestart /\ [][NextRestart]_vars

----------------------------------------------------------------------------
(* Calls of Repository(line, defaultArch) on the lines a configuration can hold *)

\* no run: the pipeline stays in its initial state
NoRun ==
    /\ configData = <<>>
    /\ options = SettingsDefault
    /\ InitRest

runVars == << configData, options, settings, up, skel, mirror, var, clock, pc, sources, force,
              filesToKeep, filesToDownload, releaseFiles, indexFiles, kind, queue, inflight,
              runs, kills, changes, ghostVars, raised >>

\* the words of a line, one space between them
RECURSIVE Words(_)
Words(ws) ==
    IF ws = <<>> THEN <<>>
    ELSE IF Head(ws) = <<>> THEN Words(Tail(ws))
    ELSE IF Words(Tail(ws)) = <<>> THEN Head(ws)
    ELSE Head(ws) \o <<" ">> \o Words(Tail(ws))

KindWords == { <<>>, <<"deb">>, <<"deb", "-", "src">>, <<"rpm">> }

BracketWords ==
    { <<>>,
      <<"[", "arch", "=", "amd64", "]">>,
      <<"[", "arch", "=", "amd64", ",", "i386", "]">>,
      <<"[", "arch", "=", "amd64", " ", ",", " ", "i386", "]">>,
      <<"[", "arch", " ", "amd64", "]">>,
      <<"[", "arch", " ", "amd64">> }

UriWords == { <<>>, <<"http", ":", "/", "/", "a">> }

TailWords ==
    { <<>>, <<"/">>, <<"d">>, <<"d", " ", "main">>, <<"d", " ", "main", " ", "contrib">>,
      <<"d", " ", "main", " ", "[", "arch", "=", "amd64", "]">> }

CommentWords == { <<>>, <<"#", " ", "note">> }

RepositoryLines ==
    { Words(<<k, b, u, t, c>>) : k \in KindWords, b \in BracketWords, u \in UriWords,
                                 t \in TailWords, c \in CommentWords }
    \cup { <<"deb", "[", "arch", "=", "amd64", "]", "http", ":", "/", "/", "a">> }

DefaultArchs == { <<"amd64">>, <<"armhf">> }

\* Repository(line, defaultArch) : the descriptor, or the IndexError of
\* elements[0] or elements[elementIndex]
NewRepository ==
    /\ ~repoResult.called
    /\ repoResult' = IF RepositoryParses(repoLine)
                     THEN Returned(Repository(repoLine, repoArch))
                     ELSE Raised("IndexError")
    /\ UNCHANGED << runVars, collectionVars, indexVars, repoLine, repoArch, parseVars, sanitiseVars, releaseVars >>

InitRepository ==
    /\ NoRun
    /\ CollectionIdle
    /\ IndexIdle
    /\ ReleaseIdle
    /\ ParseIdle
    /\ SanitiseIdle
    /\ repoLine \in RepositoryLines
    /\ repoArch \in DefaultArchs
    /\ repoResult = NotCalled

NextRepository == NewRepository

SpecRepository == InitRepository /\ [][NextRepository]_vars

----------------------------------------------------------------------------
(* settings.py : Settings.Init and Settings.Parse, the options with the type *)
(* of their value: [type, v] with v the tokens of the value                 *)

BoolValue(b) == [type |-> "bool", v |-> IF b THEN <<"True">> ELSE <<"False">>]

IntValue(digits) == [type |-> "int", v |-> digits]

StrValue(t) == [type |-> "str", v |-> t]

ListValue(t) == [type |-> "list", v |-> t]

NoneValue == [type |-> "None", v |-> <<>>]

SettingsInit ==
    [ contents  |-> BoolValue(TRUE),
      threads   |-> IntValue(<<"1">>),
      httpProxy |-> NoneValue,
      language  |-> ListValue(<<"en">>),
      logLevel  |-> StrValue(<<"INFO">>),
      test      |-> BoolValue(FALSE) ]

\* logging._nameToLevel
nameToLevel == { "CRITICAL", "FATAL", "ERROR", "WARN", "WARNING", "INFO", "DEBUG", "NOTSET" }

\* str.lower() of a token
Lower(tok) ==
    CASE tok \in {"True", "TRUE"} -> "true"
      [] tok \in {"False", "FALSE"} -> "false"
      [] tok = "DEBUG" -> "debug"
      [] tok = "INFO" -> "info"
      [] OTHER -> tok

\* w in value.lower() : a token of the value holds the word
InLower(w, value) ==
    \E i \in 1..Len(value) : Lower(value[i]) \in { w, "not" \o w }

\* value.isdigit()
isdigit(value) == Len(value) = 1 /\ value[1] \in DigitTokens

\* the line passes line.startswith("set ") and len(line.strip()) > 4
IsDirective(l) == IsPrefix(<<"set", " ">>, l) /\ Len(Trim(l)) >= 3

Key(l) == Trim(Before(Before(Drop(l, 2), <<"set", " ">>), <<"=">>))

KnownKey(l) == Len(Key(l)) = 1 /\ Key(l)[1] \in DOMAIN SettingsInit

\* line.split("=")[1] raises IndexError
ParseLineRaises(l) == IsDirective(l) /\ KnownKey(l) /\ Len(Split(l, "=")) < 2

Value(l) == Before(Trim(Split(l, "=")[2]), <<"#">>)

\* value.replace(" ", "").strip('"') : the entries with the commas between them
LanguageValue(value) == StripQuotes(Remove(value, <<" ">>))

\* one round of the loop of Settings.Parse
ParseLine(st, l) ==
    IF ~(IsDirective(l) /\ KnownKey(l)) THEN st
    ELSE LET key   == Key(l)[1]
             value == Value(l)
         IN  IF isdigit(value) THEN [st EXCEPT ![key] = IntValue(value)]
             ELSE IF InLower("true", value) \/ InLower("false", value)
                  THEN [st EXCEPT ![key] = BoolValue(Len(value) = 1 /\ Lower(value[1]) = "true")]
             ELSE IF st[key].type = "list"
                  THEN IF key = "language" THEN [st EXCEPT ![key] = ListValue(LanguageValue(value))] ELSE st
             ELSE IF st[key].type \in {"str", "None"}
                  THEN IF key = "logLevel" /\ ~(Len(StripQuotes(Trim(value))) = 1
                                                 /\ StripQuotes(Trim(value))[1] \in nameToLevel)
                       THEN st
                       ELSE IF key = "language"
                            THEN [st EXCEPT ![key] = ListValue(LanguageValue(value))]
                            ELSE [st EXCEPT ![key] = StrValue(StripQuotes(Trim(value)))]
             ELSE st

RECURSIVE ParseLines(_, _)
ParseLines(st, config) ==
    IF config = <<>> THEN st ELSE ParseLines(ParseLine(st, Head(config)), Tail(config))

\* a line of the configuration makes Settings.Parse raise
RECURSIVE ParseRaises(_)
ParseRaises(config) ==
    config # <<>> /\ (ParseLineRaises(Head(config)) \/ ParseRaises(Tail(config)))

\* locale.split("_")[0] of one language entry
StripRegion(entry) ==
    IF entry = <<"en_GB">> THEN <<"en">> ELSE entry

\* list(set(languages)) : each entry once (the lists of the model come down
\* to one entry, so that the order set() gives does not show)
RECURSIVE Dedupe(_)
Dedupe(entries) ==
    IF entries = <<>> THEN <<>>
    ELSE LET rest == Dedupe(SubSeq(entries, 1, Len(entries) - 1))
         IN  IF \E i \in 1..Len(rest) : rest[i] = entries[Len(entries)]
             THEN rest ELSE rest \o <<entries[Len(entries)]>>

RECURSIVE JoinComma(_)
JoinComma(entries) ==
    IF entries = <<>> THEN <<>>
    ELSE IF Len(entries) = 1 THEN entries[1]
    ELSE entries[1] \o <<",">> \o JoinComma(Tail(entries))

\* list(Settings._settings["language"]) raises TypeError on an int or a bool
StripToLanguageRaises(st) == st.language.type \in {"int", "bool"}

StripToLanguage(st) ==
    LET languages == Split(st.language.v, ",")
    IN  [st EXCEPT !.language =
            ListValue(JoinComma(Dedupe([ i \in 1..Len(languages) |-> StripRegion(languages[i]) ])))]

\* the settings lines a configuration can hold
SetLine(key, value) == <<"set", " ">> \o key \o <<" ", "=", " ">> \o value

SettingsLines ==
    { <<"#", " ", "note">>,
      <<"threads", " ", "=", " ", "2">>,
      <<"set">>,
      <<"set", " ">>,
      <<"set", " ", "test">>,
      <<"set", " ", "test", " ", "=">>,
      SetLine(<<"foo">>, <<"1">>),
      SetLine(<<"contents">>, <<"false">>),
      SetLine(<<"contents">>, <<"3">>),
      SetLine(<<"contents">>, <<"zero">>),
      SetLine(<<"contents">>, <<"notfalse">>),
      SetLine(<<"test">>, <<"True">>),
      SetLine(<<"test">>, <<"\"", "true", "\"">>),
      SetLine(<<"threads">>, <<"2">>),
      SetLine(<<"threads">>, <<"2", " ", "#", " ", "note">>),
      SetLine(<<"threads">>, <<"zero">>),
      SetLine(<<"threads">>, <<"true">>),
      SetLine(<<"logLevel">>, <<"DEBUG">>),
      SetLine(<<"logLevel">>, <<"abcs">>),
      SetLine(<<"logLevel">>, <<"3">>),
      SetLine(<<"language">>, <<"en_GB", ",", " ", "en">>),
      SetLine(<<"language">>, <<"3">>),
      SetLine(<<"httpProxy">>, <<"proxy">>) }

\* the configurations of at most MaxLines lines
Configurations == UNION { [1..n -> SettingsLines] : n \in 0..MaxLines }

\* Settings.Parse(config) after Settings.Init()
Parse(config) ==
    IF config = <<>> THEN Returned(SettingsInit)
    ELSE IF ParseRaises(config) THEN Raised("IndexError")
    ELSE IF StripToLanguageRaises(ParseLines(SettingsInit, config)) THEN Raised("TypeError")
    ELSE Returned(StripToLanguage(ParseLines(SettingsInit, config)))

SettingsParse ==
    /\ ~parseResult.called
    /\ parseResult' = Parse(parseConfig)
    /\ UNCHANGED << runVars, collectionVars, indexVars, repositoryVars, sanitiseVars, releaseVars, parseConfig >>

InitParse ==
    /\ NoRun
    /\ CollectionIdle
    /\ IndexIdle
    /\ ReleaseIdle
    /\ RepositoryIdle
    /\ SanitiseIdle
    /\ parseConfig \in Configurations
    /\ parseResult = NotCalled

NextParse == SettingsParse

SpecParse == InitParse /\ [][NextParse]_vars

----------------------------------------------------------------------------
(* helpers.py : calls of SanitiseUri, each on the result of the one before *)

UriTokens == { "http", "80", ":", "/" }

\* every string of at most MaxUriLen tokens, and some longer URIs
Uris ==
    UNION { [1..n -> UriTokens] : n \in 0..MaxUriLen }
    \cup { <<"http", ":", "/", "/", "a", ".", "b", ":", "80", "/", "d">>,
           <<"http", ":", "/", "/", "http", ":", "/", "/", "a">>,
           <<"http", ":", "/", "/", "x", "/", "http", ":", "/", "/", "a">> }

Sanitise ==
    /\ Len(uriResults) < 2
    /\ uriResults' = Append(uriResults,
                            SanitiseUri(IF uriResults = <<>> THEN uriArg ELSE uriResults[Len(uriResults)]))
    /\ UNCHANGED << runVars, collectionVars, indexVars, repositoryVars, parseVars, releaseVars, uriArg >>

InitSanitise ==
    /\ NoRun
    /\ CollectionIdle
    /\ IndexIdle
    /\ ReleaseIdle
    /\ RepositoryIdle
    /\ ParseIdle
    /\ uriArg \in Uris
    /\ uriResults = <<>>

NextSanitise == Sanitise

SpecSanitise == InitSanitise /\ [][NextSanitise]_vars

----------------------------------------------------------------------------
(* classes.py : calls of Repository._ParseReleaseFiles on a Release file *)

ReleaseRepositories ==
    { Repository(l, DefaultArch) :
        l \in { <<"deb", " ", "[", "arch", "=", "amd64", ",", "i386", "]", " ">> \o UA \o <<" ", "d", " ", "main", " ", "contrib">>,
                <<"deb", " ">> \o UA \o <<" ", "d", " ", "main">>,
                <<"deb", " ">> \o UA,
                <<"deb", "-", "src", " ">> \o UA \o <<" ", "d", " ", "main">> } }

ReleaseSettings ==
    { [SettingsDefault EXCEPT !.contents = c, !.byHash = h, !.language = l] :
        c \in BOOLEAN, h \in BOOLEAN, l \in { <<<<"en">>>>, <<<<"en">>, <<"de">>>> } }

\* the names a Release file can list
ListedNames ==
    { <<"main", "/", "binary", "-", "amd64", "/", "Release">>,
      <<"main", "/", "binary", "-", "amd64", "/", "Packages", ".", "xz">>,
      <<"main", "/", "binary", "-", "amd64", "/", "Packages", ".", "diff", "/", "Index">>,
      <<"main", "/", "binary", "-", "i386", "/", "Packages", ".", "gz">>,
      <<"main", "/", "binary", "-", "armhf", "/", "Packages", ".", "gz">>,
      <<"contrib", "/", "binary", "-", "amd64", "/", "Packages", ".", "gz">>,
      <<"universe", "/", "binary", "-", "amd64", "/", "Packages", ".", "gz">>,
      <<"Contents", "-", "amd64", ".", "gz">>,
      <<"Contents", "-", "armhf", ".", "gz">>,
      <<"main", "/", "Contents", "-", "amd64", ".", "gz">>,
      <<"main", "/", "Contents", "-", "udeb", "-", "amd64", ".", "gz">>,
      <<"main", "/", "cnf", "/", "Commands", "-", "amd64", ".", "xz">>,
      <<"main", "/", "i18n", "/", "cnf", "/", "Commands", "-", "amd64">>,
      <<"main", "/", "i18n", "/", "Index">>,
      <<"main", "/", "i18n", "/", "Translation", "-", "en", ".", "bz2">>,
      <<"main", "/", "i18n", "/", "Translation", "-", "de", ".", "bz2">>,
      <<"main", "/", "dep11", "/", "Components", "-", "amd64", ".", "yml", ".", "gz">>,
      <<"main", "/", "dep11", "/", "icons", "-", "64x64", ".", "tar", ".", "gz">>,
      <<"main", "/", "source", "/", "Sources", ".", "gz">>,
      <<"main", "/", "installer", "-", "amd64", "/", "current", "/", "images", "/", "SHA256SUMS">> }

Listings == { L \in SUBSET ListedNames : Cardinality(L) <= MaxListed }

ReleaseFile(L) == File(1, 1, { Entry(n) : n \in L })

\* _ParseReleaseFiles : the index URLs, or the FileNotFoundError of open()
ParseReleaseFilesCall ==
    /\ ~relResult.called
    /\ relResult' = IF ParseReleaseRaises(relRepository, relRoot)
                    THEN Raised("FileNotFoundError")
                    ELSE Returned(ParseReleaseFiles(relRepository, relSettings, relRoot))
    /\ relParsed' = IF ParseReleaseRaises(relRepository, relRoot)
                    THEN relRepository
                    ELSE ParsedRepository(relRepository, relRoot, relRoot)
    /\ UNCHANGED << runVars, collectionVars, indexVars, repositoryVars, parseVars, sanitiseVars, relRepository, relSettings, relRoot >>

InitRelease ==
    /\ NoRun
    /\ CollectionIdle
    /\ IndexIdle
    /\ RepositoryIdle
    /\ ParseIdle
    /\ SanitiseIdle
    /\ relRepository \in ReleaseRepositories
    /\ relSettings \in ReleaseSettings
    /\ relRoot \in { NoFiles } \cup { WriteFile(NoFiles, InReleasePath(relRepository), ReleaseFile(L)) : L \in Listings }
                            \cup { WriteFile(NoFiles, ReleasePath(relRepository), ReleaseFile(L)) : L \in Listings }
    /\ relResult = NotCalled
    /\ relParsed = <<>>

NextRelease == ParseReleaseFilesCall

SpecRelease == InitRelease /\ [][NextRelease]_vars

----------------------------------------------------------------------------
(* classes.py : Index.Read and Index.GetPackages, called on a file of lines *)

\* str.rstrip() : the text without the whitespace at its end
RECURSIVE rstrip(_)
rstrip(e) == IF e # <<>> /\ e[Len(e)] = " " THEN rstrip(SubSeq(e, 1, Len(e) - 1)) ELSE e

\* Index.Read
Read(lines) == [n \in DOMAIN lines |-> rstrip(lines[n])]

keywords == { "Filename", "MD5sum", "SHA1", "SHA256", "Size", "Files", "Directory" }

\* length of the [\w\-]+ run at the start of a line
RECURSIVE FieldRun(_)
FieldRun(s) ==
    IF s # <<>> /\ Head(s) \notin {" ", ":", "/", ".", "\n"} THEN 1 + FieldRun(Tail(s)) ELSE 0

\* re.search(r"^([\w\-]+:)", line)
FieldMatch(line) == FieldRun(line) >= 1 /\ Len(line) > FieldRun(line) /\ line[FieldRun(line) + 1] = ":"

\* the loop of GetPackages from line n on: the packages appended so far, the
\* package being filled, key (<<>> is None); the result is the list
\* packages, or the name of the exception that leaves the loop
RECURSIVE GetPackagesFrom(_, _, _, _, _)
GetPackagesFrom(lines, n, packages, package, key) ==
    IF n > Len(lines) THEN Returned(packages)
    ELSE LET line == lines[n]
         IN  IF line = <<>>
             THEN GetPackagesFrom(lines, n + 1, Append(packages, package), <<>>, key)
             ELSE IF ~FieldMatch(line) /\ key # <<>>
             THEN IF key[1] \notin DOMAIN package
                  THEN Raised("KeyError")
                  ELSE GetPackagesFrom(lines, n + 1, packages,
                           [package EXCEPT ![key[1]] = @ \o <<"\n">> \o Trim(line)], key)
             ELSE LET k == Split(line, ":")[1]
                  IN  IF Len(k) = 1 /\ k[1] \in keywords
                      THEN IF Len(Split(line, ":")) < 2
                           THEN Raised("IndexError")
                           ELSE GetPackagesFrom(lines, n + 1, packages,
                                    (k[1] :> Trim(Split(line, ":")[2])) @@ package, k)
                      ELSE GetPackagesFrom(lines, n + 1, packages, package, <<>>)

\* Index.GetPackages
GetPackages(lines) == GetPackagesFrom(lines, 1, <<>>, <<>>, <<>>)

\* the lines a file is made of
IndexLines ==
    { <<>>,
      <<" ">>,
      <<"Package", ":", " ", "p1">>,
      <<"Filename", ":", " ", "pool", "/", "p1", ".", "deb">>,
      <<"Size", ":", " ", "1">>,
      <<" ", "p2">> }

IndexFiles == UNION { [1..n -> IndexLines] : n \in 0..MaxIndexLines }

\* Index(path).Read() and then GetPackages()
IndexGetPackages ==
    /\ ~indexResult.called
    /\ indexResult' = GetPackages(Read(indexLines))
    /\ UNCHANGED << runVars, collectionVars, repositoryVars, parseVars, sanitiseVars, releaseVars, indexLines >>

InitIndex ==
    /\ NoRun
    /\ CollectionIdle
    /\ RepositoryIdle
    /\ ParseIdle
    /\ SanitiseIdle
    /\ ReleaseIdle
    /\ indexLines \in IndexFiles
    /\ indexResult = NotCalled

NextIndex == IndexGetPackages

SpecIndex == InitIndex /\ [][NextIndex]_vars

----------------------------------------------------------------------------
(* classes.py : ModifiedFiles and UnmodifiedFiles of a PackageCollection   *)
(* whose files have been timestamped                                       *)

\* the keys of the compressed forms of the Packages index of one repository
CollectionKeys ==
    { <<<<"main">>, <<"amd64">>, SanitiseUri(Dists(UA) \o Ext(PackagesName, e))>> :
        e \in IndexForms(PackagesName) }

\* the pairs DetermineCurrentTimestamps and DetermineDownloadTimestamps
\* leave: current is 0 for a file that was not staged, download is the
\* mtime of a file that is
TimestampPairs == { [Current |-> c, Download |-> d] : c \in 0..MaxRuns, d \in 1..MaxRuns }

Collections == UNION { [K -> TimestampPairs] : K \in SUBSET CollectionKeys }

\* collection.ModifiedFiles and collection.UnmodifiedFiles
CollectionGetFiles ==
    /\ ~collResult.called
    /\ collResult' = Returned(
          [ModifiedFiles   |-> GetFiles(collFiles, TRUE,
                                        [SettingsDefault EXCEPT !.forceUpdate = collFlags.forceUpdate],
                                        collFlags.force),
           UnmodifiedFiles |-> GetFiles(collFiles, FALSE,
                                        [SettingsDefault EXCEPT !.forceUpdate = collFlags.forceUpdate],
                                        collFlags.force)])
    /\ UNCHANGED << runVars, repositoryVars, parseVars, sanitiseVars, releaseVars, indexVars,
                    collFiles, collFlags >>

InitCollection ==
    /\ NoRun
    /\ RepositoryIdle
    /\ ParseIdle
    /\ SanitiseIdle
    /\ ReleaseIdle
    /\ IndexIdle
    /\ collFiles \in Collections
    /\ collFlags \in [forceUpdate : BOOLEAN, force : BOOLEAN]
    /\ collResult = NotCalled

NextCollection == CollectionGetFiles

SpecCollection == InitCollection /\ [][NextCollection]_vars

----------------------------------------------------------------------------
(* Properties of the pipeline *)


\* the mirror paths of the Release and index URLs the run registered
RegisteredPaths == { normpath(SanitiseUri(u)) : u \in SeqToSet(releaseFiles) \cup SeqToSet(indexFiles) }

\* the mirror paths of the artifacts the registered index files of source i declare
DeclaredPaths(i) ==
    { normpath(SanitiseUri(sources[i].uri) \o <<"/">> \o StripDotSlash(pkg.name)) :
        pkg \in UNION { ReadFile(skel, KeyFile(key)).body : key \in DOMAIN IndexCollection(sources[i]) } }

\* Clean went as far as computing the files to remove
SweepComputed == cleanResult \in {"no files", "test", "freed"}

\* C1: when the sweep candidates are computed, the Reference Set holds the
\* path of every registered Release and index file and the path of every
\* artifact an index of a configured repository declares, modified or not
C1_ReferenceSetComplete ==
    SweepComputed =>
        /\ RegisteredPaths \subseteq cleanRequired
        /\ \A i \in DOMAIN sources : DeclaredPaths(i) \subseteq cleanRequired

\* the run is past its Clean stage
Swept == pc \in {"finish", "done"}

\* the files of the mirror below the directory of a repository that is not cleaned
UnderUncleaned(p) == \E i \in DOMAIN sources : ~sources[i].clean /\ p \in Walk(mirror, sources[i].uri)

\* C2 as stated: after the Clean stage of a run that is not a test, every file
\* of the mirror is in the Reference Set or below a repository with clean off
C2_Original ==
    (Swept /\ ~Test(settings)) =>
        \A p \in DOMAIN mirror : p \in filesToKeep \/ UnderUncleaned(p)

\* C2: after the Clean stage of a run that is not a test, every file of the
\* mirror below the directory of a repository with clean on and a modified
\* index is in the Reference Set
C2_SweptSubtreeReferenced ==
    (Swept /\ ~Test(settings)) =>
        \A i \in CleanSources(sources, settings, force) : Walk(mirror, sources[i].uri) \subseteq filesToKeep

C2_Witness ==
    /\ pc = "done"
    /\ ~Test(settings)
    /\ cleanResult = "freed"
    /\ deleted # {}
    /\ \E i \in CleanSources(sources, settings, force) : Walk(mirror, sources[i].uri) # {}

\* the uris the configuration opts out of cleaning with `clean <uri> False`
CleanOffUris ==
    { Split(configData[n], " ")[2] :
        n \in { k \in DOMAIN configData :
                  StartsWith(configData[k], "clean") /\ Contains(configData[k], <<"False">>) } }

\* C3: for a configuration with the directive `clean <uri> False`, no run
\* deletes a file of the mirror below the directory of that uri, however
\* many repository lines use the uri
C3_CleanFalseKeepsFiles ==
    \A uri \in CleanOffUris : \A p \in deleted : ~IsPrefix(normpath(SanitiseUri(uri)) \o <<"/">>, p)

\* the plan of the run has been built
Planned == pc \in {"archive", "clean", "finish", "done"}

\* C4 as stated: a run that starts right after a run that completed, with the
\* same configuration and an unchanged upstream, plans no artifact and finds
\* no file to sweep
C4_Original ==
    afterSettled =>
        /\ Planned => filesToDownload = {}
        /\ Swept => cleanItems = {}

\* C4: with forceUpdate off, a run that starts right after a run that
\* completed, with the same configuration and an unchanged upstream, plans no
\* artifact and finds no file to sweep
C4_Idempotent ==
    (afterSettled /\ ~ForceUpdate(settings)) =>
        /\ Planned => filesToDownload = {}
        /\ Swept => cleanItems = {}

C4_Witness ==
    /\ afterSettled
    /\ ~ForceUpdate(settings)
    /\ pc = "done"
    /\ mirror # NoFiles
    /\ filesToDownload = {}
    /\ cleanResult = "nothing to clean"

\* C5: a run in test mode starts no artifact download, deletes no file in
\* its Clean stage and leaves the mirror as it found it
C5_TestModeFrame ==
    settings.test =>
        /\ started = {}
        /\ deleted = {}
        /\ pc \notin {"idle", "exit"} => mirror = mirrorAtStart

\* a run in test mode planned downloads and computed the files Clean would free
C5_Witness ==
    /\ settings.test
    /\ pc = "done"
    /\ parsed # {}
    /\ filesToDownload # {}
    /\ cleanResult = "test"
    /\ cleanItems # {}
    /\ cleanItems \subseteq DOMAIN mirror

\* C6: with the option disableClean on, no run deletes a file of the mirror
\* in its Clean stage
C6_DisableCleanNoSweep == settings.disableClean => deleted = {}

\* the (url, size) pairs the registered index files of the sources declare
DeclaredArtifacts ==
    UNION { { <<sources[i].uri \o <<"/">> \o StripDotSlash(pkg.name), pkg.size>> :
                pkg \in UNION { ReadFile(skel, KeyFile(key)).body : key \in DOMAIN IndexCollection(sources[i]) } } :
            i \in DOMAIN sources }

\* C7: under forceUpdate the plan holds every artifact the registered indices
\* declare and nothing else, so its size is the number of declared artifacts
C7_ForceUpdatePlansAll ==
    (ForceUpdate(settings) /\ Planned) =>
        /\ filesToDownload = DeclaredArtifacts
        /\ Cardinality(filesToDownload) = Cardinality(DeclaredArtifacts)

\* the registered index files of source i, without their extension
RegisteredIndices(i) == { splitext(KeyFile(key)) : key \in DOMAIN IndexCollection(sources[i]) }

\* C8: a run that finds the app lock at its start raises the force flag and
\* goes on; with the flag raised every registered index is expanded and is
\* read to build the plan, whatever its timestamps are
C8_InterruptedForcesAll ==
    /\ lockAtStart => force
    /\ (force /\ pc = "plan") => \A i \in DOMAIN sources : RegisteredIndices(i) \subseteq unzipped
    /\ (force /\ Planned) =>
          \A i \in DOMAIN sources : \A file \in RegisteredIndices(i) : <<i, file>> \in parsed

\* a run that found the app lock completed and read an index whose
\* timestamps before and after the fetch are equal
C8_Witness ==
    /\ lockAtStart
    /\ force
    /\ pc = "done"
    /\ \E i \in DOMAIN sources : \E key \in DOMAIN IndexCollection(sources[i]) :
          /\ ~Modified(IndexCollection(sources[i])[key])
          /\ IndexCollection(sources[i])[key].Current > 0
          /\ <<i, splitext(KeyFile(key))>> \in parsed
          /\ splitext(KeyFile(key)) \in unzipped

\* the app lock has just been acquired
LockAcquired == pc = "release" /\ queue = releaseFiles /\ inflight = Idle

\* C9: when the app lock is acquired, no file is left in the staging tree or
\* in the mirror at the path of a URL that a download lock file recorded
C9_PartialsRemoved ==
    LockAcquired =>
        \A u \in lockUrls : ~isfile(skel, SanitiseUri(u)) /\ ~isfile(mirror, SanitiseUri(u))

\* the index name a repository reads
IndexName(r) == IF r.repositoryType = "Bin" THEN PackagesName ELSE SourcesName

\* the form e of the index of source i is listed in the Release file upstream serves
Listed(i, e) == e \in ListedForms(sources[i].uri, IndexName(sources[i]))

\* the index file of URL u is registered in the collection of source i
Registered(i, u) == \E key \in DOMAIN IndexCollection(sources[i]) : KeyFile(key) = SanitiseUri(u)

\* the run is past the timestamping of its indices and still going
Timestamped == pc \in {"decompress", "plan", "archive", "clean", "finish"}

\* C10 as stated: an index file an earlier run mirrored, that upstream no
\* longer serves or no longer lists, is absent from the collection after
\* the timestamping, is not in the Reference Set, and is deleted from the
\* mirror by the Clean stage of a run that is not a test, for a repository
\* with clean on
C10_Original ==
    \A i \in DOMAIN sources : \A e \in IndexForms(IndexName(sources[i])) :
        LET u == BaseUrl(sources[i]) \o Ext(IndexName(sources[i]), e)
        IN  (Timestamped /\ isfile(mirrorAtStart, SanitiseUri(u)) /\ (u \notin DOMAIN up \/ ~Listed(i, e))) =>
                /\ ~Registered(i, u)
                /\ normpath(SanitiseUri(u)) \notin filesToKeep
                /\ (pc = "finish" /\ sources[i].clean /\ ~Test(settings)) => ~isfile(mirror, SanitiseUri(u))

\* C10: an index file an earlier run mirrored, that the Release file
\* upstream serves no longer lists, is absent from the collection after the
\* timestamping and is not in the Reference Set; the Clean stage of a run
\* that is not a test deletes it from the mirror when a repository of that
\* URI with clean on has a modified index in the run
C10_DelistedFileSwept ==
    \A i \in DOMAIN sources : \A e \in IndexForms(IndexName(sources[i])) :
        LET u == BaseUrl(sources[i]) \o Ext(IndexName(sources[i]), e)
        IN  (Timestamped /\ isfile(mirrorAtStart, SanitiseUri(u))
               /\ InReleaseUrl(sources[i].uri) \in DOMAIN up /\ ~Listed(i, e)) =>
                /\ ~Registered(i, u)
                /\ normpath(SanitiseUri(u)) \notin filesToKeep
                /\ (/\ pc = "finish"
                    /\ ~Test(settings)
                    /\ \E j \in CleanSources(sources, settings, force) : sources[j].uri = sources[i].uri)
                   => ~isfile(mirror, SanitiseUri(u))

C10_Witness ==
    /\ pc = "finish"
    /\ ~Test(settings)
    /\ \E i \in DOMAIN sources : \E e \in IndexForms(IndexName(sources[i])) :
          LET u == BaseUrl(sources[i]) \o Ext(IndexName(sources[i]), e)
          IN  /\ isfile(mirrorAtStart, SanitiseUri(u))
              /\ InReleaseUrl(sources[i].uri) \in DOMAIN up
              /\ ~Listed(i, e)
              /\ ~Registered(i, u)
              /\ normpath(SanitiseUri(u)) \in deleted

\* the Release fetch of the run has ended
ReleaseFetched == kind = "Release" /\ releaseFiles # <<>> /\ Drained

\* C11: when the Release fetch has ended and a repository has neither
\* InRelease nor Release in the staging tree, the run does not fail
C11_MissingReleaseExcluded ==
    (ReleaseFetched /\ \E i \in DOMAIN sources : ParseReleaseRaises(sources[i], skel)) => pc # "dead"

\* C12: a run whose configuration declares no repository stops before any
\* fetch and before the app lock is created, with an exit status that is
\* not zero
C12_NoRepositoryFatal ==
    (runs > 0 /\ GetSources(configData, DefaultArch) = <<>>) =>
        /\ pc = "exit"
        /\ var = NoFiles /\ skel = NoFiles /\ mirror = NoFiles
        /\ ExitStatus # 0

----------------------------------------------------------------------------
(* Properties of Repository(line, defaultArch) *)

KindTokens == { <<"deb">>, <<"deb", "-", "src">> }

\* token 0 is absent or is neither deb nor deb-src
MissingKind(l) == Elements(l) = <<>> \/ Elements(l)[1] \notin KindTokens

\* the remainder after the kind starts with a bracket
BracketOpens(l) == Len(Elements(l)) >= 2 /\ Head(Elements(l)[2]) = "["

\* the element that closes the bracket, 0 if none does
BracketCloses(l) ==
    LET e == Elements(l)
        closing == { j \in 2..Len(e) : e[j][Len(e[j])] = "]" }
    IN  IF closing = {} THEN 0 ELSE CHOOSE j \in closing : \A k \in closing : j <= k

MalformedBracket(l) ==
    BracketOpens(l) /\ (BracketCloses(l) = 0 \/ ~IsPrefix(<<"[", "arch", "=">>, Elements(l)[2]))

\* where the URI stands when the bracket, if any, is well-formed
UriIndex(l) == IF BracketOpens(l) THEN BracketCloses(l) + 1 ELSE 2

MissingUri(l) == ~MalformedBracket(l) /\ Len(Elements(l)) < UriIndex(l)

TrailingBracket(l) ==
    /\ ~MalformedBracket(l)
    /\ \E j \in UriIndex(l)..Len(Elements(l)) : \E i \in 1..Len(Elements(l)[j]) : Elements(l)[j][i] = "["

InvalidLine(l) == MissingKind(l) \/ MalformedBracket(l) \/ MissingUri(l) \/ TrailingBracket(l)

\* C13: a line whose kind is missing or is neither deb nor deb-src, whose URI
\* is missing, whose bracket is malformed or whose bracket follows the URI
\* makes the call fail with an error and yields no descriptor
C13_InvalidLineRejected ==
    (repoResult.called /\ InvalidLine(repoLine)) =>
        (repoResult.raised # "none" /\ repoResult.value = <<>>)

\* the line declares a flat layout: nothing after the URI, or the literal "/"
FlatLine(l) ==
    \/ Len(Elements(l)) = UriIndex(l)
    \/ Len(Elements(l)) > UriIndex(l) /\ Elements(l)[UriIndex(l) + 1] = <<"/">>

\* C14: a deb-src line with a flat layout is rejected with an error, and no
\* call returns a Source descriptor with an empty component list
C14_FlatSourceRejected ==
    repoResult.called =>
        /\ (~InvalidLine(repoLine) /\ Elements(repoLine)[1] = <<"deb", "-", "src">> /\ FlatLine(repoLine))
              => repoResult.raised # "none"
        /\ \A i \in DOMAIN repoResult.value :
              ~(repoResult.value[i].repositoryType = "Src" /\ repoResult.value[i].components = <<>>)

\* the call returned a descriptor for a line that is not invalid
ValidParsed == repoResult.called /\ repoResult.raised = "none" /\ ~InvalidLine(repoLine)

\* C15 as stated: for a valid line the distribution is empty exactly when the
\* component list is empty, and the architecture list is not empty
C15_Original ==
    ValidParsed =>
        \A i \in DOMAIN repoResult.value :
            /\ (repoResult.value[i].distribution = <<>>) <=> (repoResult.value[i].components = <<>>)
            /\ repoResult.value[i].architectures # <<>>

\* C15: in every descriptor a call returns, an empty distribution comes with
\* an empty component list, the flat base URL (no dists/ part) is used exactly
\* when the component list is empty, and the architecture list is not empty
C15_FlatIffNoComponents ==
    repoResult.called =>
        \A i \in DOMAIN repoResult.value :
            /\ (repoResult.value[i].distribution = <<>>) => (repoResult.value[i].components = <<>>)
            /\ (BaseUrl(repoResult.value[i]) = repoResult.value[i].uri \o <<"/">>)
                  <=> (repoResult.value[i].components = <<>>)
            /\ repoResult.value[i].architectures # <<>>

C15_Witness ==
    /\ ValidParsed
    /\ ~HasBracket(repoLine)
    /\ repoResult.value[1].distribution # <<>>
    /\ repoResult.value[1].components = <<>>
    /\ repoResult.value[1].architectures = <<repoArch>>

\* what stands between "[arch=" and "]"
BracketCsv(l) == Drop(Split(Split(StripComment(l), "[")[2], "]")[1], 2)

TrimmedEntries(l) == [ i \in 1..Len(Split(BracketCsv(l), ",")) |-> Trim(Split(BracketCsv(l), ",")[i]) ]

\* C16: with an [arch=<csv>] bracket the architecture list is the entries of
\* the csv, each trimmed, in their written order; without a bracket it is
\* the default architecture alone
C16_ArchitectureList ==
    ValidParsed =>
        /\ BracketOpens(repoLine) => repoResult.value[1].architectures = TrimmedEntries(repoLine)
        /\ ~HasBracket(repoLine) => repoResult.value[1].architectures = <<repoArch>>

----------------------------------------------------------------------------
(* Properties of Settings.Parse *)

\* the type the option has by default
DeclaredType(key) == IF SettingsInit[key].type = "None" THEN "str" ELSE SettingsInit[key].type

\* the value the line gives: what follows "=", without comment and quotes
GivenValue(l) ==
    IF Len(Split(l, "=")) < 2 THEN <<>>
    ELSE StripQuotes(Trim(Before(Split(l, "=")[2], <<"#">>)))

\* the value is of the type of the option
WellTyped(key, value) ==
    CASE DeclaredType(key) = "bool" -> Len(value) = 1 /\ Lower(value[1]) \in {"true", "false"}
      [] DeclaredType(key) = "int"  -> isdigit(value)
      [] DeclaredType(key) = "list" -> ~isdigit(value) /\ ~(Len(value) = 1 /\ Lower(value[1]) \in {"true", "false"})
      [] OTHER -> IF key = "logLevel" THEN Len(value) = 1 /\ value[1] \in nameToLevel
                  ELSE ~isdigit(value) /\ ~(Len(value) = 1 /\ Lower(value[1]) \in {"true", "false"})

\* a comment, no "set " prefix, an unknown option, no value, a value of the
\* wrong type or an invalid logLevel
InvalidDirective(l) ==
    \/ ~IsPrefix(<<"set", " ">>, l)
    \/ ~KnownKey(l)
    \/ GivenValue(l) = <<>>
    \/ ~WellTyped(Key(l)[1], GivenValue(l))

\* C17: after Settings.Parse of a configuration of invalid directives alone
\* every option has its default
C17_InvalidDirectiveIgnored ==
    (parseResult.called /\ \A i \in DOMAIN parseConfig : InvalidDirective(parseConfig[i])) =>
        (parseResult.raised = "none" /\ parseResult.value = <<SettingsInit>>)

----------------------------------------------------------------------------
(* Properties of SanitiseUri *)

\* C19: a second call of SanitiseUri, on the result of the first, returns
\* that result unchanged
C19_SanitiseIdempotent ==
    Len(uriResults) = 2 => uriResults[2] = uriResults[1]

\* a ":" followed by digits
HasPort(s) == \E i \in 1..(Len(s) - 1) : s[i] = ":" /\ s[i + 1] \in DigitTokens

\* C20: the result of SanitiseUri holds no "://" and no ":<digits>"
C20_NoSchemeNoPort ==
    Len(uriResults) >= 1 =>
        /\ ~Contains(uriResults[1], <<":", "/", "/">>)
        /\ ~HasPort(uriResults[1])

----------------------------------------------------------------------------
(* Properties of Repository._ParseReleaseFiles *)

\* the call returned the index URLs of a Binary repository with components
BinaryParsed ==
    /\ relResult.called /\ relResult.raised = "none"
    /\ relRepository.repositoryType = "Bin" /\ relRepository.components # <<>>

\* the start of the names the policy selects for a component and an architecture
PolicyPrefixes(st, c, a) ==
    { c \o <<"/", "binary", "-">> \o a \o <<"/", "Release">>,
      c \o <<"/", "binary", "-">> \o a \o <<"/", "Packages">>,
      c \o <<"/", "cnf", "/", "Commands", "-">> \o a,
      c \o <<"/", "i18n", "/", "cnf", "/", "Commands", "-">> \o a,
      c \o <<"/", "i18n", "/", "Index">>,
      c \o <<"/", "dep11", "/", "Components", "-">> \o a \o <<".", "yml">>,
      c \o <<"/", "dep11", "/", "icons", "-">> }
    \cup { c \o <<"/", "i18n", "/", "Translation", "-">> \o st.language[i] : i \in DOMAIN st.language }

PolicyName(r, st, f) ==
    \E i \in DOMAIN r.components : \E j \in DOMAIN r.architectures :
        \E pre \in PolicyPrefixes(st, r.components[i], r.architectures[j]) : IsPrefix(pre, f)

ContentsName(r, f) ==
    \E j \in DOMAIN r.architectures :
        \/ IsPrefix(<<"Contents", "-">> \o r.architectures[j], f)
        \/ \E i \in DOMAIN r.components :
              Contains(f, r.components[i] \o <<"/", "Contents", "-">> \o r.architectures[j])

ByHashUrl(url) == Contains(url, <<"/", "by", "-", "hash", "/">>)

\* C18: every URL _ParseReleaseFiles returns for a Binary repository with
\* components is the base URL followed by a listed name that a policy pattern
\* selects for a component and an architecture of the repository, or by a
\* Contents name, or is a by-hash URL; Contents names come only with contents
\* on, by-hash URLs only with byHash on
C18_OnlyPolicyUrls ==
    BinaryParsed =>
        \A url \in relResult.value[1] :
            /\ \/ \E f \in ReleaseNames(relRepository, relRoot) :
                     /\ url = BaseUrl(relRepository) \o f
                     /\ PolicyName(relRepository, relSettings, f) \/ ContentsName(relRepository, f)
               \/ ByHashUrl(url)
            /\ (\E f \in ReleaseNames(relRepository, relRoot) :
                     url = BaseUrl(relRepository) \o f /\ ContentsName(relRepository, f))
                  => relSettings.contents
            /\ ByHashUrl(url) => relSettings.byHash

C18_Witness ==
    /\ BinaryParsed
    /\ ~relSettings.contents /\ ~relSettings.byHash
    /\ ReleaseNames(relRepository, relRoot) =
          { <<"main", "/", "Contents", "-", "amd64", ".", "gz">>,
            <<"main", "/", "binary", "-", "amd64", "/", "Packages", ".", "xz">> }
    /\ relResult.value[1] =
          { BaseUrl(relRepository) \o <<"main", "/", "binary", "-", "amd64", "/", "Packages", ".", "xz">> }

----------------------------------------------------------------------------
(* Properties of the stages of a run *)

\* the step is the copy of the staging tree to the mirror, or Clean
PromoteStep == pc = "archive" /\ pc' = "clean"

SweepStep == pc = "clean"

\* C21: a step of a run changes the mirror only if it is the Promote stage
\* or the Clean stage
C21_MirrorFrame ==
    [][ (mirror' # mirror) => (PromoteStep \/ SweepStep) ]_vars

\* a worker takes an artefact url
ArchiveFetchStarts == kind = "Archive" /\ \E w \in Workers : inflight[w] = <<>> /\ inflight'[w] # <<>>

\* every url in the hands of a worker is an artefact of the plan
OnlyArchivesInFlight ==
    \A w \in Workers : inflight[w] # <<>> => inflight[w] \in { d[1] : d \in filesToDownload }

\* every index registered has the time of its staged file
IndicesTimestamped ==
    \A i \in DOMAIN sources : \A key \in DOMAIN IndexCollection(sources[i]) :
        /\ isfile(skel, KeyFile(key))
        /\ IndexCollection(sources[i])[key].Download > 0

SweepDeletes == pc = "clean" /\ mirror' # mirror

PromotionComplete == \A k \in filesToKeep : ~CopyNeeded(skel, mirror, k)

\* C22: no artefact fetch starts before every index fetch has ended and the
\* indices are timestamped, no promotion copy starts before every worker of
\* the artefact fetch has finished, no sweep deletion starts before the
\* promotion has completed
C22_StageBarriers ==
    [][ /\ ArchiveFetchStarts => (pc = "archive" /\ OnlyArchivesInFlight /\ IndicesTimestamped)
        /\ PromoteStep => (queue = <<>> /\ \A w \in Workers : inflight[w] = <<>>)
        /\ SweepDeletes => (PromotionComplete /\ \A w \in Workers : inflight[w] = <<>>) ]_vars

\* a run fetched an artefact with the second worker busy and swept the mirror
C22_Witness ==
    /\ pc = "finish"
    /\ started # {}
    /\ deleted # {}
    /\ \E p \in filesToKeep : isfile(mirror, p) /\ isfile(skel, p)

----------------------------------------------------------------------------
(* Properties of Downloader.DownloadUrlsProcess *)

LockHeld(w) == isfile(var, DownloadLock(w)) /\ ReadFile(var, DownloadLock(w)) = inflight[w]

\* the urls of the stage that a worker took and ended
Ended ==
    LET stage == IF kind = "Release" THEN SeqToSet(releaseFiles)
                 ELSE IF kind = "Index" THEN SeqToSet(indexFiles)
                 ELSE { d[1] : d \in filesToDownload }
    IN  { u \in stage : u \notin SeqToSet(queue) /\ \A w \in Workers : inflight[w] # u }

\* C23: while a worker transfers a url a lock file in var holds that url, and
\* the lock file is gone once the transfer has ended, fetched or not
C23_LockFileProtocol ==
    Downloading =>
        \A w \in Workers : IF inflight[w] # <<>> THEN LockHeld(w) ELSE ~isfile(var, DownloadLock(w))

\* a transfer failed and another ended with the file, while a worker is busy
C23_Witness ==
    /\ Downloading
    /\ \E w \in Workers : inflight[w] # <<>> /\ LockHeld(w)
    /\ \E v \in Workers : inflight[v] = <<>> /\ ~isfile(var, DownloadLock(v))
    /\ \E u \in Ended : u \notin DOMAIN up
    /\ \E u \in Ended : u \in DOMAIN up

\* the jobs of the pool of the stage: the urls queued and the urls in the hands of a worker
Jobs == queue \o SelectSeq([w \in 1..MaxThreads |-> inflight[w]], LAMBDA u : u # <<>>)

\* C24: in the Release fetch and in the index fetch no two jobs of the pool
\* write the same file of the staging tree
C24_NoSharedTarget ==
    (pc \in {"release", "index"}) =>
        \A m, n \in DOMAIN Jobs :
            m # n => normpath(SanitiseUri(Jobs[m])) # normpath(SanitiseUri(Jobs[n]))

----------------------------------------------------------------------------
(* Properties of the index collections *)

\* the timestamp pairs of the files the collections of the run register
Pairs == UNION { { IndexCollection(sources[i])[key] : key \in DOMAIN IndexCollection(sources[i]) } :
                 i \in DOMAIN sources }

\* C25: once the indices are timestamped, every file still registered has
\* current = download > 0 or current < download
C25_TimestampStates ==
    Timestamped =>
        \A ts \in Pairs : (ts.Current = ts.Download /\ ts.Download > 0) \/ ts.Current < ts.Download

\* the step is the call of source.Timestamp() of every source
TimestampStep == pc = "index" /\ pc' = "decompress"

Staged(key) == normpath(KeyFile(key)) \in DOMAIN skel

\* C26: DetermineDownloadTimestamps removes the entries whose file is not in
\* the staging tree and no other; every other entry keeps its key and its
\* current, and its download becomes the mtime of the file
C26_DownloadTimestamps ==
    [][ TimestampStep =>
          \A i \in DOMAIN sources :
             LET before == IndexCollection(sources[i])
                 after  == IndexCollection(sources'[i])
             IN  /\ DOMAIN after = { key \in DOMAIN before : Staged(key) }
                 /\ \A key \in DOMAIN after :
                       /\ after[key].Download = skel[normpath(KeyFile(key))].mtime
                       /\ after[key].Current = before[key].Current ]_vars

\* the keys ParseReleaseFiles registered in this run
RegisteredAtParse(i) ==
    IF sources[i].repositoryType = "Bin"
    THEN BinRegistered(sources[i], ReleaseNames(sources[i], skel))
    ELSE SrcRegistered(sources[i], ReleaseNames(sources[i], skel))

\* the indices are timestamped: an entry was removed, another was kept with
\* the current of a file staged before
C26_Witness ==
    /\ pc = "decompress"
    /\ \E i \in DOMAIN sources :
          /\ \E key \in RegisteredAtParse(i) : key \notin DOMAIN IndexCollection(sources[i]) /\ ~Staged(key)
          /\ \E key \in DOMAIN IndexCollection(sources[i]) :
                IndexCollection(sources[i])[key].Current > 0

\* IndexCollection.ModifiedFiles and IndexCollection.UnmodifiedFiles
ModifiedFiles(i) == GetIndexFiles(sources[i], TRUE, settings, force)

UnmodifiedFiles(i) == GetIndexFiles(sources[i], FALSE, settings, force)

ForceFlag == settings.forceUpdate \/ force

\* C27: with forceUpdate set or the force flag raised, ModifiedFiles and
\* UnmodifiedFiles are each every registered file without its extension
C27_ForceReturnsAll ==
    (Timestamped /\ ForceFlag) =>
        \A i \in DOMAIN sources :
            /\ ModifiedFiles(i) = RegisteredIndices(i)
            /\ UnmodifiedFiles(i) = RegisteredIndices(i)

\* the flag of the interrupted run is raised and forceUpdate is not set: one
\* file registered has equal timestamps, another has not
C27_Witness ==
    /\ Timestamped
    /\ force
    /\ ~settings.forceUpdate
    /\ \E ts \in Pairs : ts.Current = ts.Download /\ ts.Current > 0
    /\ \E ts \in Pairs : ts.Current # ts.Download

\* every index file registered was staged before the index fetch and has the
\* mtime it had then
IndicesUnchanged == \A ts \in Pairs : ts.Current = ts.Download /\ ts.Current > 0

\* C28: when no force flag is set and every registered index file was staged
\* before the index fetch and kept its mtime, ModifiedFiles is empty,
\* UnmodifiedFiles is every registered file, no repository is Modified and
\* the artefact fetch plan is empty
C28_UnmodifiedRerun ==
    (Planned /\ ~ForceFlag /\ IndicesUnchanged) =>
        /\ \A i \in DOMAIN sources :
              /\ ModifiedFiles(i) = {}
              /\ UnmodifiedFiles(i) = RegisteredIndices(i)
              /\ ~RepositoryModified(sources[i], settings, force)
        /\ filesToDownload = {}
        /\ parsed = {}

\* a second run with its indices unchanged, that registers an index and
\* whose mirror lacks an artefact the index declares
C28_Witness ==
    /\ Planned
    /\ ~ForceFlag
    /\ IndicesUnchanged
    /\ Pairs # {}
    /\ runs = 2
    /\ \E a \in DeclaredArtifacts : ~isfile(mirror, SanitiseUri(a[1]))

----------------------------------------------------------------------------
(* Properties of ProcessIndex and of the promotion *)

\* the step is the loop "Building file list"
PlanStep == pc = "plan" /\ pc' = "archive"

\* the (source, package) pairs the modified indices declare
DeclaredByModified ==
    UNION { { <<i, pkg>> : pkg \in UNION { skel[normpath(file)].body : file \in ModifiedFiles(i) } } :
            i \in DOMAIN sources }

ArtifactUrl(i, pkg) == sources[i].uri \o <<"/">> \o StripDotSlash(pkg.name)

ArtifactPath(i, pkg) == normpath(SanitiseUri(sources[i].uri) \o <<"/">> \o StripDotSlash(pkg.name))

needsUpdate(i, pkg) ==
    \/ ArtifactPath(i, pkg) \notin DOMAIN mirror
    \/ mirror[ArtifactPath(i, pkg)].size # pkg.size
    \/ settings.forceUpdate

Copied(p) == p \in DOMAIN mirror' /\ (p \in DOMAIN mirror => mirror'[p] # mirror[p])

\* C30: the promotion copies a path if and only if it is in the Reference
\* Set, its file is staged, and the mirror has no such file or an older one;
\* a mirror file as recent as the staged one stays as it is, and no mirror
\* file is removed
C30_PromotionCopies ==
    [][ (PromoteStep /\ ~settings.test) =>
          /\ \A p \in DOMAIN mirror \cup DOMAIN mirror' \cup DOMAIN skel \cup filesToKeep :
                Copied(p) <=>
                   /\ p \in filesToKeep
                   /\ p \in DOMAIN skel
                   /\ (p \notin DOMAIN mirror \/ skel[p].mtime > mirror[p].mtime)
          /\ \A p \in DOMAIN mirror :
                /\ p \in DOMAIN mirror'
                /\ (p \in DOMAIN skel /\ mirror[p].mtime >= skel[p].mtime) => mirror'[p] = mirror[p]
          /\ \A p \in filesToKeep : Copied(p) => mirror'[p].body = skel[p].body ]_vars

\* the promotion has just ended: it copied a staged file over an older mirror
\* file and left another mirror file, as recent as its staged file, as it was
C30_Witness ==
    /\ pc = "clean"
    /\ ~settings.test
    /\ runs = 2
    /\ \E p \in filesToKeep :
          /\ p \in DOMAIN skel /\ p \in DOMAIN mirror /\ p \in DOMAIN mirrorAtStart
          /\ mirror[p].mtime = clock
          /\ mirrorAtStart[p].mtime < skel[p].mtime
    /\ \E q \in filesToKeep :
          /\ q \in DOMAIN skel /\ q \in DOMAIN mirror
          /\ mirror[q].mtime < clock
          /\ mirror[q].mtime >= skel[q].mtime

----------------------------------------------------------------------------
(* Properties of Index.GetPackages *)

\* the number of paragraphs: the runs of lines that are not blank
RECURSIVE Paragraphs(_)
Paragraphs(lines) ==
    IF lines = <<>> THEN 0
    ELSE (IF Head(lines) # <<>> /\ (Len(lines) = 1 \/ lines[2] = <<>>) THEN 1 ELSE 0)
         + Paragraphs(Tail(lines))

\* C31: GetPackages returns one record for each paragraph of the file, the
\* last paragraph without a blank line after it included
C31_OneRecordPerParagraph ==
    (indexResult.called /\ indexResult.raised = "none") =>
        Len(indexResult.value[1]) = Paragraphs(Read(indexLines))

----------------------------------------------------------------------------
(* Properties of DecompressReleaseFiles *)

DecompressStep == pc = "decompress" /\ pc' = "plan"

\* the first form staged among F.xz, F.gz, F.bz2, <<>> if there is none
PreferredForm(file) ==
    IF normpath(Ext(file, "xz")) \in DOMAIN skel THEN Ext(file, "xz")
    ELSE IF normpath(Ext(file, "gz")) \in DOMAIN skel THEN Ext(file, "gz")
    ELSE IF normpath(Ext(file, "bz2")) \in DOMAIN skel THEN Ext(file, "bz2")
    ELSE <<>>

\* C32: the decompression expands into F the first staged file among F.xz,
\* F.gz, F.bz2 in that order, and writes nothing when none is staged
C32_XzBeforeGz ==
    [][ DecompressStep =>
          \A file \in ModifiedIndexFiles :
             IF PreferredForm(file) = <<>>
             THEN \/ normpath(file) \notin DOMAIN skel /\ normpath(file) \notin DOMAIN skel'
                  \/ normpath(file) \in DOMAIN skel /\ normpath(file) \in DOMAIN skel'
                     /\ skel'[normpath(file)] = skel[normpath(file)]
             ELSE /\ normpath(file) \in DOMAIN skel'
                  /\ skel'[normpath(file)].body = skel[normpath(PreferredForm(file))].body ]_vars

----------------------------------------------------------------------------
(* Properties of the files Repository._ParseReleaseFiles registers *)

IndexSuffixes == { <<>>, <<".", "gz">>, <<".", "bz2">>, <<".", "xz">> }

\* the names the Release file of the call lists
RelListed == { e.name : e \in UNION { relRoot[p].body : p \in DOMAIN relRoot } }

RelFile(name) == SanitiseUri(BaseUrl(relRepository) \o name)

\* the keys the collection is to hold after the call
ExpectedKeys ==
    IF relRepository.repositoryType = "Src"
    THEN { <<c, RelFile(c \o <<"/", "source", "/", "Sources">> \o x)>> :
             <<c, x>> \in { y \in SeqToSet(relRepository.components) \X IndexSuffixes :
                               y[1] \o <<"/", "source", "/", "Sources">> \o y[2] \in RelListed } }
    ELSE IF relRepository.components # <<>>
    THEN { <<y[1], y[2], RelFile(y[1] \o <<"/", "binary", "-">> \o y[2] \o <<"/", "Packages">> \o y[3])>> :
             y \in { z \in SeqToSet(relRepository.components) \X SeqToSet(relRepository.architectures)
                              \X IndexSuffixes :
                        z[1] \o <<"/", "binary", "-">> \o z[2] \o <<"/", "Packages">> \o z[3] \in RelListed } }
    ELSE { <<<<"Flat">>, y[1], RelFile(<<"Packages">> \o y[2])>> :
             y \in { z \in SeqToSet(relRepository.architectures) \X IndexSuffixes :
                        <<"Packages">> \o z[2] \in RelListed } }

\* C33: after _ParseReleaseFiles the collection holds the Packages or the
\* Sources files the Release file lists with one of the suffixes "", .gz,
\* .bz2, .xz, each under its key, and no other file
C33_RegisteredExactly ==
    (relResult.called /\ relResult.raised = "none") =>
        DOMAIN IndexCollection(relParsed) = ExpectedKeys

----------------------------------------------------------------------------
(* Properties of Clean *)

\* the directories a path lies in
Parents(p) == { SubSeq(p, 1, n - 1) : n \in { m \in 2..Len(p) : p[m] = "/" } }

\* the directories of a tree; os.remove takes files only, so the directories
\* of the mirror before Clean are the directories after it
Dirs(fs) == UNION { Parents(p) : p \in DOMAIN fs }

Under(fs, d) == { p \in DOMAIN fs : IsPrefix(d \o <<"/">>, p) }

\* C34: a sweep that is not a test removes every file of its candidate set
\* and leaves no empty directory under the subtree of a repository it cleans
C34_SweepPrunes ==
    [][ (SweepStep /\ cleanResult' = "freed") =>
          /\ \A p \in cleanItems' : normpath(p) \notin DOMAIN mirror'
          /\ \A d \in Dirs(mirror) :
                (\E i \in DOMAIN sources :
                    sources[i].clean /\ IsPrefix(SanitiseUri(sources[i].uri) \o <<"/">>, d \o <<"/">>))
                => Under(mirror', d) # {} ]_vars

----------------------------------------------------------------------------
(* Properties of ModifiedFiles and UnmodifiedFiles *)

\* C35: with no force flag, ModifiedFiles and UnmodifiedFiles of a collection
\* whose files are timestamped have no name in common and together hold the
\* name of every file registered
C35_ModifiedPartition ==
    (collResult.called /\ ~collFlags.forceUpdate /\ ~collFlags.force) =>
        /\ collResult.value[1].ModifiedFiles \cap collResult.value[1].UnmodifiedFiles = {}
        /\ collResult.value[1].ModifiedFiles \cup collResult.value[1].UnmodifiedFiles
             = { splitext(KeyFile(key)) : key \in DOMAIN collFiles }

----------------------------------------------------------------------------
(* Properties of the app lock *)

\* a run was killed, and it had created the app lock or had itself found the
\* lock of a run interrupted before it
InterruptedPending ==
    /\ pc = "dead"
    /\ ~raised
    /\ kills >= 1
    /\ (force \/ isfile(var, appLockFile))

\* the lock scan of a run started now raises the flag
NextRunForced == AppLockFound(DownloaderInit(var))

\* C36: while a run interrupted after it created the app lock has not been
\* followed by a completed run, the next run raises the flag of the
\* interrupted run
C36_InterruptedKept == InterruptedPending => NextRunForced

----------------------------------------------------------------------------
(* Properties of the fetch plan over successive runs *)

\* the mirror at the start of the run lacks the artefact a, or has it with
\* another size than the declared one
MissingAtStart(a) ==
    \/ ~isfile(mirrorAtStart, SanitiseUri(a[1]))
    \/ mirrorAtStart[normpath(SanitiseUri(a[1]))].size # a[2]

\* C37: the plan of a run holds every artefact that a registered index
\* declares and that the mirror lacked, or had with another size, when the
\* run started, also when no index changed since the previous completed run
C37_MirrorConverges ==
    Planned => \A a \in DeclaredArtifacts : MissingAtStart(a) => a \in filesToDownload

\* the plan of a run that no run preceded: every artefact the registered
\* indices declare and the mirror lacked, or had with another size
FreshPlan == { a \in DeclaredArtifacts : MissingAtStart(a) }

\* the run before this one left no app lock and an empty mirror: it was a
\* test-mode run that completed, or it ended before it staged anything
AfterTestRun ==
    /\ runs = 2
    /\ ~settings.test
    /\ ~lockAtStart
    /\ mirrorAtStart = NoFiles

\* C38: the plan of a normal run that follows a completed test-mode run is
\* the plan the normal run has when no run preceded it
C38_TestRunTransparent == (AfterTestRun /\ Planned) => filesToDownload = FreshPlan

----------------------------------------------------------------------------
(* Properties of the types Settings.Parse leaves *)

\* the last line of the configuration writes a string to the option key
WritesString(key) ==
    /\ parseConfig # <<>>
    /\ LET l == parseConfig[Len(parseConfig)]
       IN  /\ IsPrefix(<<"set", " ">>, l)
           /\ KnownKey(l)
           /\ Key(l)[1] = key
           /\ GivenValue(l) # <<>>
           /\ key = "logLevel" => (Len(GivenValue(l)) = 1 /\ GivenValue(l)[1] \in nameToLevel)

\* C39: after Settings.Parse every option holds a value of the type it has
\* by default, and a string option holds the string the last line wrote
C39_TypesPreserved ==
    (parseResult.called /\ parseResult.raised = "none") =>
        \A key \in DOMAIN SettingsInit :
            /\ parseResult.value[1][key].type \in {SettingsInit[key].type, DeclaredType(key)}
            /\ (DeclaredType(key) = "str" /\ WritesString(key)) =>
                   parseResult.value[1][key] = StrValue(GivenValue(parseConfig[Len(parseConfig)]))

====
